---- MODULE Spec2Model ----
(***************************************************************************)
(* A model of go-crud: the context-propagated transaction manager         *)
(* (internal/transactor.go), the generic repository (gorm_repository.go),  *)
(* the soft-delete visibility scopes (internal/gorm_scopes.go and the      *)
(* DeletedFilter wrapper) and the field-name validator (internal/gorm.go). *)
(*                                                                         *)
(* The database engine is an external collaborator.  It is modelled as a   *)
(* table of committed rows plus, per open transaction handle, an overlay   *)
(* of uncommitted writes that only that handle sees and that Commit        *)
(* applies and Rollback discards.  Every engine call may fail.             *)
(***************************************************************************)
EXTENDS Integers, Sequences, FiniteSets, TLC

\* ------------------------------------------------------------------ bounds

\* Primary keys of the modelled table are 1..MaxId.
MaxId == 2
\* Transaction handles the engine hands out in one run.
MaxTx == 2
\* Nesting depth of WithinTransaction frames of one call chain.
MaxDepth == 2
\* Calls one call chain makes in one run (returns are not counted).
MaxOps == 4
\* Length of the slices given to the batch operations.
MaxBatch == 1
\* Rows of the table the scopes are tried on.
MaxRows == 4
\* Scopes applied to one query.
MaxScopes == 2
\* Length, in runes, of the field names given to the validator.
MaxLen == 3
\* Page numbers given to Paginate run from -MaxPage to MaxPage.
MaxPage == 2
\* Page sizes given to Paginate run from 0 to MaxLimit.
MaxLimit == 2
\* Calls each of the chains that run side by side makes.
MaxChainOps == 3

\* ------------------------------------------------------------------ errors

\* An error is the sequence of its messages, outermost wrapping first;
\* err.Error() of an eris-wrapped error prints them joined by ": ".
Nil == << >>

New(msg) == << msg >>

Wrap(err, msg) == << msg >> \o err

MsgTransactionError == "error processing transaction"

MsgTxDone == "sql: transaction has already been committed or rolled back"

ErrTxDone == New(MsgTxDone)

\* gorm.ErrRecordNotFound
ErrRecordNotFound == New("record not found")

\* Any other failure the engine reports (connectivity, constraint, ...).
ErrEngine == New("driver: bad connection")

\* gorm.ErrMissingWhereClause: a delete without a primary key.
ErrMissingWhere == New("WHERE conditions required")

ErrZeroValue == New("model cannot be zero value")

ErrInsertEmpty == New("inserted models cannot be empty")

ErrDeleteEmpty == New("deleted models cannot be empty")

ErrBadCtx == New("error getting tx from ctx")

\* The words of a message, for "the error mentions ..." checks.
Words(msg) ==
    CASE msg = "model cannot be zero value" ->
            << "model", "cannot", "be", "zero", "value" >>
      [] msg = "inserted models cannot be empty" ->
            << "inserted", "models", "cannot", "be", "empty" >>
      [] msg = "deleted models cannot be empty" ->
            << "deleted", "models", "cannot", "be", "empty" >>
      [] OTHER -> << msg >>

\* phrase occurs as consecutive words of some message of err
\* (strings.Contains(err.Error(), phrase) for a phrase of whole words).
Mentions(err, phrase) ==
    \E k \in 1..Len(err) :
        \E s \in 0..(Len(Words(err[k])) - Len(phrase)) :
            \A j \in 1..Len(phrase) : Words(err[k])[s + j] = phrase[j]

\* ------------------------------------------------------------------ entities

Ids == 1..MaxId

\* The entity type T, as BaseEntity: the primary key and the soft-delete
\* marker (DeletedAt.Valid); the timestamps play no part.
Models == [ID : 0..MaxId, Deleted : BOOLEAN]

\* *new(T): the zero value.  A table slot holding Zero holds no row.
Zero == [ID |-> 0, Deleted |-> FALSE]

EmptyTable == [i \in Ids |-> Zero]

Rows(t) == {t[i] : i \in {j \in Ids : t[j] # Zero}}

\* Slices of at most MaxBatch models.
Slices == UNION {[1..n -> Models] : n \in 0..MaxBatch}

\* ------------------------------------------------------------------ contexts

\* A context is modelled by what ctx.Value(lib.ContextKeyGormTx) returns:
\* NoTx (nil: nothing stored), BadVal (a value that is not a *gorm.DB) or a
\* handle 1..MaxTx.  context.WithValue shadows whatever was stored before.
NoTx == 0

BadVal == -1

Handles == 1..MaxTx

Ctxs == {NoTx, BadVal} \cup Handles

\* The independent external callers.
Chains == {"c1", "c2"}

\* ------------------------------------------------------------------ state

VARIABLES
    db,       \* the committed rows: what the base connection reads
    tx,       \* per handle: its state and its overlay of uncommitted writes
    ctx0,     \* per chain: the context the external caller starts with
    stack,    \* per chain: the caller's frame and the open WithinTransaction frames
    ret,      \* per chain: what the chain's last step was and what it returned
    ops,      \* per chain: client operations issued so far
    rows,     \* scopes: the rows of the queried table
    query,    \* scopes: the query in progress
    found,    \* scopes: the rows the last Find returned
    field,    \* validator: the field name under test
    verdict   \* validator: what the validators answered for it

txvars == << db, tx, ctx0, stack, ret, ops >>

scopevars == << rows, query, found >>

fieldvars == << field, verdict >>

vars == << db, tx, ctx0, stack, ret, ops, rows, query, found, field, verdict >>

\* ------------------------------------------------------------------ engine

Min(S) == CHOOSE m \in S : \A n \in S : m <= n

\* A handle nobody has opened yet.  touched/rows are its overlay.  parent
\* is the context Begin derived the handle's context from, and onActive
\* whether a direct Begin call opened it on a context whose handle was
\* active.  by/led are the callers' own account of it: by[i] is the nesting
\* depth of the body that last wrote row i through a context carrying the
\* handle (-1: none did) and led[i] the row it left there.
NoHandle ==
    [state |-> "unused", touched |-> {}, rows |-> EmptyTable, chain |-> "",
     parent |-> 0, onActive |-> FALSE,
     commitCalled |-> FALSE, by |-> [i \in Ids |-> -1], led |-> EmptyTable]

\* A handle once finished: its overlay is gone.
Finished(t, st) ==
    [t EXCEPT !.state = st, !.touched = {}, !.rows = EmptyTable,
              !.by = [i \in Ids |-> -1], !.led = EmptyTable]

\* What a connection reads: the base connection (0) the committed rows, a
\* handle the committed rows overlaid with its own uncommitted writes.
View(txs, d, conn) ==
    IF conn = 0 THEN d
    ELSE [i \in Ids |-> IF i \in txs[conn].touched THEN txs[conn].rows[i] ELSE d[i]]

\* database/sql refuses every statement on a finished transaction.
Usable(txs, conn) == conn = 0 \/ txs[conn].state = "active"

\* A statement that wrote the rows ids makes the table its connection sees
\* v: at once on the base connection (autocommit), in the overlay on a handle.
Store(txs, d, conn, v, ids) ==
    IF conn = 0 THEN [tx |-> txs, db |-> v]
    ELSE [tx |-> [txs EXCEPT ![conn].touched = @ \cup ids,
                             ![conn].rows = [i \in Ids |-> IF i \in ids THEN v[i] ELSE @[i]]],
          db |-> d]

\* INSERT: a zero primary key is generated; a taken one is a conflict.
EngineCreate(v, m) ==
    LET free == {i \in Ids : v[i] = Zero}
        k    == IF m.ID # 0 THEN m.ID ELSE IF free = {} THEN 0 ELSE Min(free)
    IN  IF k = 0 \/ v[k] # Zero
        THEN [err |-> ErrEngine, view |-> v, model |-> m]
        ELSE [err |-> Nil, view |-> [v EXCEPT ![k] = [m EXCEPT !.ID = k]],
              model |-> [m EXCEPT !.ID = k]]

\* Save: insert on a zero primary key, else write every column of that row.
EngineSave(v, m) ==
    IF m.ID = 0 THEN EngineCreate(v, m)
    ELSE [err |-> Nil, view |-> [v EXCEPT ![m.ID] = m], model |-> m]

\* A Delete that sets the soft-delete marker of the row.
EngineDeleteSoft(v, m) ==
    IF m.ID = 0 THEN [err |-> ErrMissingWhere, view |-> v, model |-> m]
    ELSE [err |-> Nil,
          view |-> [v EXCEPT ![m.ID] = IF @ = Zero THEN @ ELSE [@ EXCEPT !.Deleted = TRUE]],
          model |-> m]

\* Unscoped().Delete: DELETE ... WHERE id = ?, never an UPDATE of the marker.
EngineDelete(v, m) ==
    IF m.ID = 0 THEN [err |-> ErrMissingWhere, view |-> v, model |-> m]
    ELSE [err |-> Nil, view |-> [v EXCEPT ![m.ID] = Zero], model |-> m]

\* The batch forms: one statement, all rows or none.
RECURSIVE EngineMany(_, _, _, _)
EngineMany(kind, v0, v, ms) ==
    IF ms = << >> THEN [err |-> Nil, view |-> v, models |-> << >>]
    ELSE LET r == IF kind = "create" THEN EngineCreate(v, Head(ms)) ELSE EngineSave(v, Head(ms))
         IN  IF r.err # Nil THEN [err |-> r.err, view |-> v0, models |-> << >>]
             ELSE LET rest == EngineMany(kind, v0, r.view, Tail(ms))
                  IN  IF rest.err # Nil THEN rest
                      ELSE [rest EXCEPT !.models = << r.model >> \o @]

EngineDeleteMany(v, ms) ==
    LET ids == {ms[k].ID : k \in 1..Len(ms)} \ {0}
    IN  IF ids = {} THEN [err |-> ErrMissingWhere, view |-> v, models |-> ms]
        ELSE [err |-> Nil, view |-> [i \in Ids |-> IF i \in ids THEN Zero ELSE v[i]],
              models |-> ms]

\* sql.Tx.Commit: a finished handle answers ErrTxDone; otherwise the handle
\* is finished whatever the driver answers, and only a successful commit
\* makes the overlay part of the committed rows.
HandleCommit(txs, d, h, ok) ==
    IF txs[h].state # "active"
    THEN [tx |-> [txs EXCEPT ![h].commitCalled = TRUE], db |-> d, err |-> ErrTxDone]
    ELSE IF ok
    THEN [tx |-> [txs EXCEPT ![h] = [Finished(@, "committed") EXCEPT !.commitCalled = TRUE]],
          db |-> View(txs, d, h), err |-> Nil]
    ELSE [tx |-> [txs EXCEPT ![h] = [Finished(@, "rolledback") EXCEPT !.commitCalled = TRUE]],
          db |-> d, err |-> ErrEngine]

\* sql.Tx.Rollback: a finished handle answers ErrTxDone; otherwise the
\* overlay is discarded and the handle is finished whatever the driver answers.
HandleRollback(txs, h, ok) ==
    IF txs[h].state # "active"
    THEN [tx |-> txs, err |-> ErrTxDone]
    ELSE [tx |-> [txs EXCEPT ![h] = Finished(@, "rolledback")],
          err |-> IF ok THEN Nil ELSE ErrEngine]

\* ------------------------------------------------------------------ transactor

\* A GetTxFromContext that answers an error when nothing is stored.
GetTxFromContextStrict(x) ==
    IF x \in Handles
    THEN [tx |-> x, err |-> Nil]
    ELSE [tx |-> 0, err |-> ErrBadCtx]

\* A GetTxFromContext that takes a stored value that is no handle for no
\* transaction.
GetTxFromContextForgiving(x) ==
    IF x \in Handles
    THEN [tx |-> x, err |-> Nil]
    ELSE [tx |-> 0, err |-> Nil]

\* A GetTxFromContext that finds the transaction that is open, whatever
\* the context: the transaction is ambient.
GetTxFromContextAmbient(x) ==
    LET open == {h \in Handles : tx[h].state = "active"}
    IN  IF x # NoTx
        THEN IF x \notin Handles
             THEN [tx |-> 0, err |-> ErrBadCtx]
             ELSE [tx |-> x, err |-> Nil]
        ELSE IF open # {} THEN [tx |-> Min(open), err |-> Nil]
        ELSE [tx |-> 0, err |-> Nil]

\* GetTxFromContext: (handle, nil) when one is stored, (nil, error) when the
\* stored value is no handle, (nil, nil) when nothing is stored.  tx = 0
\* stands for the nil *gorm.DB.
GetTxFromContext(x) ==
    IF x # NoTx
    THEN IF x \notin Handles
         THEN [tx |-> 0, err |-> ErrBadCtx]
         ELSE [tx |-> x, err |-> Nil]
    ELSE [tx |-> 0, err |-> Nil]

\* A Begin of a transactor that keeps one current transaction for all its
\* callers: while one is open, that one is handed out.
BeginShared(txs, x, ok, c) ==
    LET free == {h \in Handles : txs[h].state = "unused"}
        open == {h \in Handles : txs[h].state = "active"}
    IN  IF ~ok \/ (free = {} /\ open = {})
        THEN [tx |-> txs, ctx |-> x, err |-> Wrap(ErrEngine, MsgTransactionError)]
        ELSE IF open # {}
        THEN [tx |-> txs, ctx |-> Min(open), err |-> Nil]
        ELSE [tx |-> [txs EXCEPT ![Min(free)] =
                        [NoHandle EXCEPT !.state = "active", !.chain = c, !.parent = x]],
              ctx |-> Min(free), err |-> Nil]

\* A Begin that looks at ctx first and, when it carries an active handle,
\* opens nothing and answers ctx.
BeginReuse(txs, x, ok, c) ==
    LET free == {h \in Handles : txs[h].state = "unused"}
    IN  IF x \in Handles /\ txs[x].state = "active"
        THEN [tx |-> txs, ctx |-> x, err |-> Nil]
        ELSE IF ~ok \/ free = {}
        THEN [tx |-> txs, ctx |-> x, err |-> Wrap(ErrEngine, MsgTransactionError)]
        ELSE [tx |-> [txs EXCEPT ![Min(free)] =
                        [NoHandle EXCEPT !.state = "active", !.chain = c, !.parent = x]],
              ctx |-> Min(free), err |-> Nil]

\* Begin: opens a transaction without looking at ctx and returns the context
\* derived from ctx that carries the new handle; a failed open is wrapped.
\* The engine refuses when asked (ok false) or when it has no handle left.
Begin(txs, x, ok, c) ==
    LET free == {h \in Handles : txs[h].state = "unused"}
    IN  IF ~ok \/ free = {}
        THEN [tx |-> txs, ctx |-> x, err |-> Wrap(ErrEngine, MsgTransactionError)]
        ELSE [tx |-> [txs EXCEPT ![Min(free)] =
                        [NoHandle EXCEPT !.state = "active", !.chain = c, !.parent = x]],
              ctx |-> Min(free), err |-> Nil]

\* The handles on the chain of contexts that x was derived through: the one
\* x carries, the one carried by the context that one was begun on, ...
RECURSIVE ChainOf(_, _)
ChainOf(txs, x) ==
    IF x \notin Handles THEN {} ELSE {x} \cup ChainOf(txs, txs[x].parent)

\* A Commit that treats a context without a handle as an error.
CommitStrict(txs, d, x, ok) ==
    LET g == GetTxFromContext(x)
    IN  IF g.err # Nil \/ g.tx = 0
        THEN [tx |-> txs, db |-> d, err |-> ErrBadCtx, issued |-> {}, failed |-> {}, refused |-> {}]
        ELSE LET r == HandleCommit(txs, d, g.tx, ok)
             IN  [tx |-> r.tx, db |-> r.db,
                  err |-> IF r.err # Nil THEN Wrap(r.err, MsgTransactionError) ELSE Nil,
                  issued |-> {"commit"},
                  failed |-> IF r.err # Nil THEN {"commit"} ELSE {},
                  refused |-> IF r.err = ErrTxDone THEN {"commit"} ELSE {}]

\* A Rollback that, given a context without a handle, rolls back whatever
\* transaction it finds open.
RollbackAny(txs, x, ok) ==
    LET g    == GetTxFromContext(x)
        open == {h \in Handles : txs[h].state = "active"}
        h    == IF g.tx # 0 THEN g.tx ELSE IF open = {} THEN 0 ELSE Min(open)
    IN  IF g.err # Nil \/ h = 0
        THEN [tx |-> txs, logged |-> {}, issued |-> {}, failed |-> {}, refused |-> {}]
        ELSE LET r == HandleRollback(txs, h, ok)
             IN  [tx |-> r.tx, logged |-> {}, issued |-> {"rollback"},
                  failed |-> IF r.err # Nil THEN {"rollback"} ELSE {},
                  refused |-> IF r.err = ErrTxDone THEN {"rollback"} ELSE {}]

\* A Commit that, like Rollback, takes the refusal of a finished handle for
\* success.
CommitLenient(txs, d, x, ok) ==
    LET g == GetTxFromContext(x)
    IN  IF g.err # Nil
        THEN [tx |-> txs, db |-> d, err |-> g.err, issued |-> {}, failed |-> {}, refused |-> {}]
        ELSE IF g.tx # 0
        THEN LET r == HandleCommit(txs, d, g.tx, ok)
             IN  [tx |-> r.tx, db |-> r.db,
                  err |-> IF r.err # Nil /\ r.err # ErrTxDone
                          THEN Wrap(r.err, MsgTransactionError) ELSE Nil,
                  issued |-> {"commit"},
                  failed |-> IF r.err # Nil THEN {"commit"} ELSE {},
                  refused |-> IF r.err = ErrTxDone THEN {"commit"} ELSE {}]
        ELSE [tx |-> txs, db |-> d, err |-> Nil, issued |-> {}, failed |-> {}, refused |-> {}]

\* A Commit whose handle stays open when the engine fails the commit.
CommitRetryable(txs, d, x, ok) ==
    LET g == GetTxFromContext(x)
    IN  IF g.err # Nil
        THEN [tx |-> txs, db |-> d, err |-> g.err, issued |-> {}, failed |-> {}, refused |-> {}]
        ELSE IF g.tx # 0 /\ (ok \/ txs[g.tx].state # "active")
        THEN LET r == HandleCommit(txs, d, g.tx, ok)
             IN  [tx |-> r.tx, db |-> r.db,
                  err |-> IF r.err # Nil THEN Wrap(r.err, MsgTransactionError) ELSE Nil,
                  issued |-> {"commit"},
                  failed |-> IF r.err # Nil THEN {"commit"} ELSE {},
                  refused |-> IF r.err = ErrTxDone THEN {"commit"} ELSE {}]
        ELSE IF g.tx # 0
        THEN [tx |-> [txs EXCEPT ![g.tx].commitCalled = TRUE], db |-> d,
              err |-> Wrap(ErrEngine, MsgTransactionError),
              issued |-> {"commit"}, failed |-> {"commit"}, refused |-> {}]
        ELSE [tx |-> txs, db |-> d, err |-> Nil, issued |-> {}, failed |-> {}, refused |-> {}]

\* Commit: the context error as it is; nothing to do without a handle; a
\* failed commit wrapped.  issued: the calls made on the handle; failed:
\* those of them answered with an error; refused: those of them that
\* database/sql refused because the handle was finished.
Commit(txs, d, x, ok) ==
    LET g == GetTxFromContext(x)
    IN  IF g.err # Nil
        THEN [tx |-> txs, db |-> d, err |-> g.err, issued |-> {}, failed |-> {}, refused |-> {}]
        ELSE IF g.tx # 0
        THEN LET r == HandleCommit(txs, d, g.tx, ok)
             IN  [tx |-> r.tx, db |-> r.db,
                  err |-> IF r.err # Nil THEN Wrap(r.err, MsgTransactionError) ELSE Nil,
                  issued |-> {"commit"},
                  failed |-> IF r.err # Nil THEN {"commit"} ELSE {},
                  refused |-> IF r.err = ErrTxDone THEN {"commit"} ELSE {}]
        ELSE [tx |-> txs, db |-> d, err |-> Nil, issued |-> {}, failed |-> {}, refused |-> {}]

\* Rollback: returns nothing.  logged: the lines it writes to the log.
Rollback(txs, x, ok) ==
    LET g == GetTxFromContext(x)
    IN  IF g.err # Nil
        THEN [tx |-> txs, logged |-> {<< "rollback error:" >> \o g.err},
              issued |-> {}, failed |-> {}, refused |-> {}]
        ELSE IF g.tx = 0
        THEN [tx |-> txs, logged |-> {<< "no transaction is running" >>},
              issued |-> {}, failed |-> {}, refused |-> {}]
        ELSE LET r == HandleRollback(txs, g.tx, ok)
             IN  [tx |-> r.tx,
                  logged |-> IF r.err # Nil /\ r.err # ErrTxDone
                             THEN {<< "rollback error:" >> \o r.err} ELSE {},
                  issued |-> {"rollback"},
                  failed |-> IF r.err # Nil THEN {"rollback"} ELSE {},
                  refused |-> IF r.err = ErrTxDone THEN {"rollback"} ELSE {}]

\* A WithinTransaction that begins a transaction whatever ctx carries.
WithinTransactionEnterAlways(txs, x, ok, c) ==
    LET b == Begin(txs, x, ok, c)
    IN  IF b.err # Nil
        THEN [tx |-> b.tx, invoke |-> FALSE, owner |-> FALSE, ctx |-> x,
              err |-> Wrap(b.err, "error starting transaction"),
              issued |-> {"begin"}, failed |-> {"begin"}, refused |-> {}]
        ELSE [tx |-> b.tx, invoke |-> TRUE, owner |-> TRUE, ctx |-> b.ctx,
              err |-> Nil, issued |-> {"begin"}, failed |-> {}, refused |-> {}]

\* A WithinTransaction that runs serviceFn on the context it was given when
\* Begin fails.
WithinTransactionEnterUnbegun(txs, x, ok, c) ==
    LET g == GetTxFromContext(x)
    IN  IF g.err # Nil
        THEN [tx |-> txs, invoke |-> FALSE, owner |-> FALSE, ctx |-> x,
              err |-> Wrap(g.err, "error checking existing transaction"),
              issued |-> {}, failed |-> {}, refused |-> {}]
        ELSE IF g.tx # 0
        THEN [tx |-> txs, invoke |-> TRUE, owner |-> FALSE, ctx |-> x,
              err |-> Nil, issued |-> {}, failed |-> {}, refused |-> {}]
        ELSE LET b == Begin(txs, x, ok, c)
             IN  IF b.err # Nil
                 THEN [tx |-> b.tx, invoke |-> TRUE, owner |-> FALSE, ctx |-> x,
                       err |-> Nil, issued |-> {"begin"}, failed |-> {"begin"}, refused |-> {}]
                 ELSE [tx |-> b.tx, invoke |-> TRUE, owner |-> TRUE, ctx |-> b.ctx,
                       err |-> Nil, issued |-> {"begin"}, failed |-> {}, refused |-> {}]

\* WithinTransaction up to the call of serviceFn (lines 62-81): whether
\* serviceFn is invoked, with which context, and whether this frame owns a
\* new transaction and so has a Rollback deferred.
WithinTransactionEnter(txs, x, ok, c) ==
    LET g == GetTxFromContext(x)
    IN  IF g.err # Nil
        THEN [tx |-> txs, invoke |-> FALSE, owner |-> FALSE, ctx |-> x,
              err |-> Wrap(g.err, "error checking existing transaction"),
              issued |-> {}, failed |-> {}, refused |-> {}]
        ELSE IF g.tx # 0
        THEN [tx |-> txs, invoke |-> TRUE, owner |-> FALSE, ctx |-> x,
              err |-> Nil, issued |-> {}, failed |-> {}, refused |-> {}]
        ELSE LET b == Begin(txs, x, ok, c)
             IN  IF b.err # Nil
                 THEN [tx |-> b.tx, invoke |-> FALSE, owner |-> FALSE, ctx |-> x,
                       err |-> Wrap(b.err, "error starting transaction"),
                       issued |-> {"begin"}, failed |-> {"begin"}, refused |-> {}]
                 ELSE [tx |-> b.tx, invoke |-> TRUE, owner |-> TRUE, ctx |-> b.ctx,
                       err |-> Nil, issued |-> {"begin"}, failed |-> {}, refused |-> {}]

\* A WithinTransaction whose deferred Rollback undoes what Commit committed.
WithinTransactionExitUndo(txs, d, owner, x, r, panicked, commitOk, rollbackOk) ==
    IF ~owner
    THEN [tx |-> txs, db |-> d, err |-> r, logged |-> {}, issued |-> {}, failed |-> {}, refused |-> {}]
    ELSE LET cm == IF panicked \/ r # Nil
                   THEN [tx |-> txs, db |-> d, err |-> r, issued |-> {}, failed |-> {}, refused |-> {}]
                   ELSE Commit(txs, d, x, commitOk)
             rb == Rollback(cm.tx, x, rollbackOk)
         IN  [tx |-> rb.tx, db |-> d, err |-> cm.err, logged |-> rb.logged,
              issued |-> cm.issued \cup rb.issued, failed |-> cm.failed \cup rb.failed,
              refused |-> cm.refused \cup rb.refused]

\* A WithinTransaction that rolls back only when serviceFn returns an error:
\* nothing is deferred.
WithinTransactionExitNoDefer(txs, d, owner, x, r, panicked, commitOk, rollbackOk) ==
    IF ~owner \/ panicked
    THEN [tx |-> txs, db |-> d, err |-> r, logged |-> {}, issued |-> {}, failed |-> {}, refused |-> {}]
    ELSE IF r # Nil
    THEN LET rb == Rollback(txs, x, rollbackOk)
         IN  [tx |-> rb.tx, db |-> d, err |-> r, logged |-> rb.logged,
              issued |-> rb.issued, failed |-> rb.failed, refused |-> rb.refused]
    ELSE LET cm == Commit(txs, d, x, commitOk)
         IN  [tx |-> cm.tx, db |-> cm.db, err |-> cm.err, logged |-> {},
              issued |-> cm.issued, failed |-> cm.failed, refused |-> cm.refused]

\* A WithinTransaction that returns the failure of its Rollback in place of
\* the error it was returning.
WithinTransactionExitMasks(txs, d, owner, x, r, panicked, commitOk, rollbackOk) ==
    IF ~owner
    THEN [tx |-> txs, db |-> d, err |-> r, logged |-> {}, issued |-> {}, failed |-> {}, refused |-> {}]
    ELSE LET cm == IF panicked \/ r # Nil
                   THEN [tx |-> txs, db |-> d, err |-> r, issued |-> {}, failed |-> {}, refused |-> {}]
                   ELSE Commit(txs, d, x, commitOk)
             rb == Rollback(cm.tx, x, rollbackOk)
         IN  [tx |-> rb.tx, db |-> cm.db,
              err |-> IF rb.failed # rb.refused THEN Wrap(ErrEngine, "rollback error:") ELSE cm.err,
              logged |-> rb.logged,
              issued |-> cm.issued \cup rb.issued, failed |-> cm.failed \cup rb.failed,
              refused |-> cm.refused \cup rb.refused]

\* A WithinTransaction whose nested call rolls the shared transaction back
\* when its serviceFn fails.
WithinTransactionExitInnerFails(txs, d, owner, x, r, panicked, commitOk, rollbackOk) ==
    IF ~owner
    THEN IF r # Nil /\ ~panicked
         THEN LET rb == Rollback(txs, x, rollbackOk)
              IN  [tx |-> rb.tx, db |-> d, err |-> r, logged |-> rb.logged,
                   issued |-> rb.issued, failed |-> rb.failed, refused |-> rb.refused]
         ELSE [tx |-> txs, db |-> d, err |-> r, logged |-> {}, issued |-> {}, failed |-> {},
               refused |-> {}]
    ELSE IF panicked \/ r # Nil
    THEN LET rb == Rollback(txs, x, rollbackOk)
         IN  [tx |-> rb.tx, db |-> d, err |-> r, logged |-> rb.logged,
              issued |-> rb.issued, failed |-> rb.failed, refused |-> rb.refused]
    ELSE LET cm == Commit(txs, d, x, commitOk)
             rb == Rollback(cm.tx, x, rollbackOk)
         IN  [tx |-> rb.tx, db |-> cm.db, err |-> cm.err, logged |-> rb.logged,
              issued |-> cm.issued \cup rb.issued, failed |-> cm.failed \cup rb.failed,
              refused |-> cm.refused \cup rb.refused]

\* A WithinTransaction that commits whatever serviceFn returned.
WithinTransactionExitCommits(txs, d, owner, x, r, panicked, commitOk, rollbackOk) ==
    IF ~owner
    THEN [tx |-> txs, db |-> d, err |-> r, logged |-> {}, issued |-> {}, failed |-> {}, refused |-> {}]
    ELSE LET cm == Commit(txs, d, x, commitOk)
             rb == Rollback(cm.tx, x, rollbackOk)
         IN  [tx |-> rb.tx, db |-> cm.db, err |-> IF r # Nil THEN r ELSE cm.err,
              logged |-> rb.logged,
              issued |-> cm.issued \cup rb.issued, failed |-> cm.failed \cup rb.failed,
              refused |-> cm.refused \cup rb.refused]

\* WithinTransaction from the return of serviceFn (lines 71, 79-85).  r is
\* what serviceFn returned, panicked whether it panicked instead.  The frame
\* that reused a transaction hands r back; the frame that owns one returns r
\* if it is an error and the result of Commit otherwise, and its deferred
\* Rollback runs last on every path.
WithinTransactionExit(txs, d, owner, x, r, panicked, commitOk, rollbackOk) ==
    IF ~owner
    THEN [tx |-> txs, db |-> d, err |-> r, logged |-> {}, issued |-> {}, failed |-> {}, refused |-> {}]
    ELSE IF panicked \/ r # Nil
    THEN LET rb == Rollback(txs, x, rollbackOk)
         IN  [tx |-> rb.tx, db |-> d, err |-> r, logged |-> rb.logged,
              issued |-> rb.issued, failed |-> rb.failed, refused |-> rb.refused]
    ELSE LET cm == Commit(txs, d, x, commitOk)
             rb == Rollback(cm.tx, x, rollbackOk)
         IN  [tx |-> rb.tx, db |-> cm.db, err |-> cm.err, logged |-> rb.logged,
              issued |-> cm.issued \cup rb.issued, failed |-> cm.failed \cup rb.failed,
              refused |-> cm.refused \cup rb.refused]

\* ------------------------------------------------------------------ scopes

\* The soft-delete visibility policies; "nil" is the DeletedFilter whose
\* filterType is unset (the zero value of a Specification's field).
DeletedFilters == {"nil", "ExcludeDeleted", "IncludeDeleted", "OnlyDeleted"}

\* A query in progress: the WHERE fragments added so far (all must hold),
\* the ORDER BY fragments, LIMIT and OFFSET (-1: not set), the relations to
\* preload, the locking clause and the deferred error.  applied is the list
\* of scopes that built it and last the arguments of the latest of them.
NoArgs == [field |-> << >>, ascending |-> FALSE, page |-> 0, limit |-> 0]

NewQuery ==
    [where |-> {}, order |-> << >>, limit |-> -1, offset |-> -1,
     preload |-> << >>, lock |-> FALSE, err |-> Nil, applied |-> << >>,
     last |-> NoArgs]

\* db.AddError(err): the first error is kept and later ones are joined to it.
AddError(q, err) == [q EXCEPT !.err = @ \o err]

\* d.Where(fragment)
Where(q, frag, m) == [q EXCEPT !.where = @ \cup {[frag |-> frag, model |-> m]}]

\* internal.ExcludeDeleted.WhereDeleted
ExcludeDeletedWhereDeleted(q) == Where(q, "deleted_at IS NULL", Zero)

\* internal.IncludeDeleted.WhereDeleted
IncludeDeletedWhereDeleted(q) == q

\* An OnlyDeleted scope that asks for the marker to be null.
OnlyDeletedWhereNull(q) == Where(q, "deleted_at IS NULL", Zero)

\* internal.OnlyDeleted.WhereDeleted
OnlyDeletedWhereDeleted(q) == Where(q, "deleted_at IS NOT NULL", Zero)

\* A WhereDeleted whose unset filter hides soft-deleted rows.
WhereDeletedUnsetExcludes(df, q) ==
    IF df \in {"nil", "ExcludeDeleted"} THEN ExcludeDeletedWhereDeleted(q)
    ELSE IF df = "IncludeDeleted" THEN IncludeDeletedWhereDeleted(q)
    ELSE OnlyDeletedWhereDeleted(q)

\* DeletedFilter.WhereDeleted: no filter type, no change; else the type's scope.
WhereDeleted(df, q) ==
    IF df = "nil" THEN q
    ELSE CASE df = "ExcludeDeleted" -> ExcludeDeletedWhereDeleted(q)
           [] df = "IncludeDeleted" -> IncludeDeletedWhereDeleted(q)
           [] df = "OnlyDeleted" -> OnlyDeletedWhereDeleted(q)

\* WhereBySpec for a struct T: the non-zero fields of spec, ANDed.
WhereBySpec(spec, q) == Where(q, "spec", spec)

\* DefaultOrder
DefaultOrder(q) == [q EXCEPT !.order = Append(@, << "created_at", "DESC" >>)]

\* PreloadRelations
PreloadRelations(relations, q) == [q EXCEPT !.preload = @ \o relations]

\* ForUpdate
ForUpdate(enable, q) == IF enable THEN [q EXCEPT !.lock = TRUE] ELSE q

\* Whether a row satisfies one WHERE fragment.
Matches(row, w) ==
    CASE w.frag = "deleted_at IS NULL" -> ~row.Deleted
      [] w.frag = "deleted_at IS NOT NULL" -> row.Deleted
      [] w.frag = "spec" ->
            /\ w.model.ID # 0 => row.ID = w.model.ID
            /\ w.model.Deleted => row.Deleted

\* The rows of a set that a query selects.
Select(q, rs) == {r \in rs : \A w \in q.where : Matches(r, w)}

\* ------------------------------------------------------------------ repository

\* What a repository method did: the error and values it returned, whether
\* it resolved a connection (GetGormInstance), whether it issued a statement
\* to the engine and what error the engine answered, and, when the statement
\* wrote, the connection and the table that connection sees afterwards.
NoOut ==
    [err |-> Nil, model |-> Zero, models |-> << >>, rows |-> {}, resolved |-> FALSE,
     issued |-> FALSE, engine |-> Nil, write |-> FALSE, conn |-> 0, view |-> EmptyTable]

\* A checkZeroValue that lets every model pass.
checkZeroValueNone(model) == Nil

checkZeroValue(model) == IF model = Zero THEN ErrZeroValue ELSE Nil

\* A GetGormInstance that answers the base connection whatever ctx carries.
GetGormInstanceBase(x) ==
    LET g == GetTxFromContext(x)
    IN  IF g.err # Nil THEN [conn |-> 0, err |-> g.err]
        ELSE [conn |-> 0, err |-> Nil]

\* GetGormInstance: the handle stored in ctx, else the base connection (0).
GetGormInstance(x) ==
    LET g == GetTxFromContext(x)
    IN  IF g.err # Nil THEN [conn |-> 0, err |-> g.err]
        ELSE IF g.tx # 0 THEN [conn |-> g.tx, err |-> Nil]
        ELSE [conn |-> 0, err |-> Nil]

\* What the engine answers before it looks at the statement.
EngineErr(conn, fail) ==
    IF ~Usable(tx, conn) THEN ErrTxDone ELSE IF fail THEN ErrEngine ELSE Nil

\* The table the connection resolved for ctx x reads.
Seen(x) == View(tx, db, GetGormInstance(x).conn)

\* The common tail of the writing methods: resolve the connection, run the
\* statement, which on what the connection sees gives r, wrap a failure
\* with msg.
Executed(x, fail, msg, r) ==
    LET g == GetGormInstance(x)
    IN  IF g.err # Nil THEN [NoOut EXCEPT !.err = g.err, !.resolved = TRUE]
        ELSE LET bad == EngineErr(g.conn, fail)
                 e   == IF bad # Nil THEN bad ELSE r.err
             IN  IF e # Nil
                 THEN [NoOut EXCEPT !.err = Wrap(e, msg), !.resolved = TRUE,
                                    !.issued = TRUE, !.engine = e, !.conn = g.conn]
                 ELSE [NoOut EXCEPT !.resolved = TRUE, !.issued = TRUE, !.write = TRUE,
                                    !.conn = g.conn, !.view = r.view,
                                    !.model = r.model, !.models = r.models]

One(r) == [err |-> r.err, view |-> r.view, model |-> r.model, models |-> << >>]

Many(r) == [err |-> r.err, view |-> r.view, model |-> Zero, models |-> r.models]

Insert(x, model, fail) ==
    IF checkZeroValue(model) # Nil THEN [NoOut EXCEPT !.err = checkZeroValue(model)]
    ELSE Executed(x, fail, "error inserting data", One(EngineCreate(Seen(x), model)))

Update(x, model, fail) ==
    IF checkZeroValue(model) # Nil THEN [NoOut EXCEPT !.err = checkZeroValue(model)]
    ELSE Executed(x, fail, "error updating data", One(EngineSave(Seen(x), model)))

Delete(x, model, fail) ==
    IF checkZeroValue(model) # Nil THEN [NoOut EXCEPT !.err = checkZeroValue(model)]
    ELSE [Executed(x, fail, "error deleting data", One(EngineDelete(Seen(x), model)))
            EXCEPT !.model = Zero]

InsertMany(x, models, fail) ==
    IF Len(models) < 1 THEN [NoOut EXCEPT !.err = ErrInsertEmpty]
    ELSE Executed(x, fail, "error batch inserting data",
                  Many(EngineMany("create", Seen(x), Seen(x), models)))

DeleteMany(x, models, fail) ==
    IF Len(models) < 1 THEN [NoOut EXCEPT !.err = ErrDeleteEmpty]
    ELSE Executed(x, fail, "error batch deleting data",
                  Many([EngineDeleteMany(Seen(x), models) EXCEPT !.models = << >>]))

SaveMany(x, models, fail) ==
    IF Len(models) < 1 THEN [NoOut EXCEPT !.err = ErrInsertEmpty]
    ELSE Executed(x, fail, "error batch inserting data",
                  Many(EngineMany("save", Seen(x), Seen(x), models)))

\* A Specification[T]: PreloadRelations is always empty here (T has none).
Specifications == [Model : Models, ForUpdate : BOOLEAN, DeletedFilter : DeletedFilters]

\* The zero value of Specification[T].
NoSpec == [Model |-> Zero, ForUpdate |-> FALSE, DeletedFilter |-> "nil"]

\* The scopes FindAll and FindFirst apply, in their order.
FindScopes(spec) ==
    WhereDeleted(spec.DeletedFilter,
        ForUpdate(spec.ForUpdate,
            PreloadRelations(<< >>,
                DefaultOrder(
                    WhereBySpec(spec.Model, NewQuery)))))

FindAll(x, spec, fail) ==
    LET g == GetGormInstance(x)
    IN  IF g.err # Nil THEN [NoOut EXCEPT !.err = g.err, !.resolved = TRUE]
        ELSE LET e == EngineErr(g.conn, fail)
             IN  IF e # Nil
                 THEN [NoOut EXCEPT !.err = Wrap(e, "error querying data"),
                                    !.resolved = TRUE, !.issued = TRUE, !.engine = e,
                                    !.conn = g.conn]
                 ELSE [NoOut EXCEPT !.rows = Select(FindScopes(spec), Rows(View(tx, db, g.conn))),
                                    !.resolved = TRUE, !.issued = TRUE, !.conn = g.conn]

\* The rows First can answer with: it orders by created_at, which the model
\* does not keep, so any selected row may come first.
FirstCandidates(x, spec) ==
    LET g == GetGormInstance(x)
    IN  IF g.err # Nil \/ ~Usable(tx, g.conn) THEN {}
        ELSE Select(FindScopes(spec), Rows(View(tx, db, g.conn)))

\* A FindFirst that reports "record not found" like any other failure.
FindFirstStrict(x, spec, fail, first) ==
    LET g == GetGormInstance(x)
    IN  IF g.err # Nil THEN [NoOut EXCEPT !.err = g.err, !.resolved = TRUE]
        ELSE LET bad == EngineErr(g.conn, fail)
                 e   == IF bad # Nil THEN bad
                        ELSE IF first = Zero THEN ErrRecordNotFound ELSE Nil
             IN  IF e # Nil
                 THEN [NoOut EXCEPT !.err = Wrap(e, "error querying data"),
                                    !.resolved = TRUE, !.issued = TRUE, !.engine = e,
                                    !.conn = g.conn]
                 ELSE [NoOut EXCEPT !.model = first, !.resolved = TRUE, !.issued = TRUE,
                                    !.conn = g.conn]

\* FindFirst: first is the row the engine put first, Zero when it selected
\* none and so answered ErrRecordNotFound.
FindFirst(x, spec, fail, first) ==
    LET g == GetGormInstance(x)
    IN  IF g.err # Nil THEN [NoOut EXCEPT !.err = g.err, !.resolved = TRUE]
        ELSE LET bad == EngineErr(g.conn, fail)
                 e   == IF bad # Nil THEN bad
                        ELSE IF first = Zero THEN ErrRecordNotFound ELSE Nil
             IN  IF e # Nil
                 THEN IF e = ErrRecordNotFound
                      THEN [NoOut EXCEPT !.resolved = TRUE, !.issued = TRUE, !.engine = e,
                                         !.conn = g.conn]
                      ELSE [NoOut EXCEPT !.err = Wrap(e, "error querying data"),
                                         !.resolved = TRUE, !.issued = TRUE, !.engine = e,
                                         !.conn = g.conn]
                 ELSE [NoOut EXCEPT !.model = first, !.resolved = TRUE, !.issued = TRUE,
                                    !.conn = g.conn]

\* ------------------------------------------------------------------ field names

\* The runes field names are made of here: the ends of the ranges that
\* isValidChar tests, their neighbours, the dot, a space, two runes outside
\* ASCII letters (233 and 20013, both Unicode letters) and a control
\* character (9).  A string is the sequence of its runes, as range yields
\* them.
Runes == {9, 32, 46, 47, 48, 57, 58, 64, 65, 90, 91, 95, 96, 97, 122, 123, 233, 20013}

\* An isValidChar that knows letters only.
isValidCharLetters(char) ==
    \/ (char >= 97 /\ char <= 122)
    \/ (char >= 65 /\ char <= 90)

\* An isValidChar that takes every letter of Unicode for a letter.
isValidCharUnicode(char) ==
    \/ (char >= 97 /\ char <= 122)
    \/ (char >= 65 /\ char <= 90)
    \/ char >= 192
    \/ (char >= 48 /\ char <= 57)
    \/ char = 95
    \/ char = 46

\* 'a' = 97, 'z' = 122, 'A' = 65, 'Z' = 90, '0' = 48, '9' = 57, '_' = 95,
\* '.' = 46.
isValidChar(char) ==
    \/ (char >= 97 /\ char <= 122)
    \/ (char >= 65 /\ char <= 90)
    \/ (char >= 48 /\ char <= 57)
    \/ char = 95
    \/ char = 46

\* IsValidFieldName of internal/gorm.go.
IsValidFieldName(f) ==
    IF Len(f) = 0 THEN FALSE
    ELSE \A k \in 1..Len(f) : isValidChar(f[k])

\* The loop of the other IsValidFieldName of package internal, from rune k
\* on; prevDot: the rune before was a dot.
RECURSIVE FieldNameLoop(_, _, _)
FieldNameLoop(f, k, prevDot) ==
    IF k > Len(f) THEN ~prevDot
    ELSE IF f[k] = 46
    THEN IF k = 1 \/ prevDot THEN FALSE ELSE FieldNameLoop(f, k + 1, TRUE)
    ELSE IF ~isValidChar(f[k]) THEN FALSE
    ELSE FieldNameLoop(f, k + 1, FALSE)

\* The IsValidFieldName that takes dots as separators only.
IsValidFieldNameSeparated(f) ==
    IF Len(f) = 0 THEN FALSE ELSE FieldNameLoop(f, 1, FALSE)

\* verdict before a name has been checked.
NoVerdict == [done |-> FALSE, valid |-> FALSE, separated |-> FALSE]

\* ------------------------------------------------------------------ ordering, pagination

\* The field names given to OrderBy: "", "a", "a_1", "a.b", ".", "a b", ";".
OrderFields ==
    {<< >>, << 97 >>, << 97, 95, 48 >>, << 97, 46, 97 >>, << 46 >>, << 97, 32, 97 >>, << 59 >>}

ErrInvalidFieldName == New("invalid field name: %s")

\* An OrderBy that orders by whatever name it is given.
OrderByUnchecked(f, ascending, q) ==
    [q EXCEPT !.order = Append(@, << f, IF ascending THEN "ASC" ELSE "DESC" >>)]

\* OrderBy: a name the validator refuses is an error on the query and no
\* ORDER BY; any other name is ordered by, ascending or descending.
OrderBy(f, ascending, q) ==
    IF ~IsValidFieldName(f)
    THEN AddError(q, ErrInvalidFieldName)
    ELSE IF ascending
         THEN [q EXCEPT !.order = Append(@, << f, "ASC" >>)]
         ELSE [q EXCEPT !.order = Append(@, << f, "DESC" >>)]

\* The page numbers and page sizes given to Paginate.
Pages == (0 - MaxPage)..MaxPage

Limits == 0..MaxLimit

\* A Paginate that takes the page number as it comes.
PaginateUnclamped(page, limit, q) ==
    [q EXCEPT !.limit = limit, !.offset = (page - 1) * limit]

\* Paginate: pages are counted from 1, and a page below 1 is page 1.
Paginate(page, limit, q) ==
    LET p == IF page < 1 THEN 1 ELSE page
        offset == (p - 1) * limit
    IN  [q EXCEPT !.limit = limit, !.offset = offset]

\* ------------------------------------------------------------------ call chains

ErrService == New("service error")

\* A frame of a call chain.  stack[c][1] is the external caller; above it
\* lie the bodies (serviceFn) of the WithinTransaction calls in progress.
\* owner: this WithinTransaction call began the transaction and has its
\* Rollback deferred.  inCtx: the context the call was given.  ctx: the
\* context serviceFn received (for the caller: the one it threads).  res:
\* the error the last inner call returned to this body.  panic: a panic is
\* unwinding through the frame.  threaded: every WithinTransaction call made
\* from this body and below was given the context the body received.
\* begins: the transactions those calls and this one opened.  outside: the
\* keys of the rows this body wrote on the base connection.
CallerFrame(x) ==
    [owner |-> FALSE, inCtx |-> x, ctx |-> x, res |-> Nil, panic |-> FALSE,
     threaded |-> TRUE, begins |-> 0, outside |-> {}]

\* The account of a step.  For every call: op, the context given, the error
\* returned, the engine calls issued, the lines logged.  For a repository
\* call also the values returned, whether the input was the zero value or
\* the empty slice, whether a connection was resolved and which (conn, -1
\* for none), the error the engine answered the statement with, for Delete
\* and DeleteMany the keys whose rows were to go (gone), for FindAll and
\* FindFirst the DeletedFilter of the Specification given (df) and, in
\* matched, for FindFirst how many rows it had to choose from and for Delete
\* how many rows it removed.  For Begin, Commit, Rollback and
\* WithinTransaction which of the calls made on the handle failed or were
\* refused.  For a
\* WithinTransaction call that returned also: whether serviceFn was invoked,
\* with which context (h), whether the call owned the transaction, what
\* serviceFn returned or that it panicked, what the last WithinTransaction
\* call serviceFn made had returned (inner), the keys serviceFn wrote on the
\* base connection (outside), at which depth the body ran, the
\* frame's threaded and begins, and the account (by, led) of the writes
\* made through the context serviceFn received, as it stood when serviceFn
\* ended.
NoRet ==
    [op |-> "", ctx |-> NoTx, err |-> Nil, issued |-> {}, failed |-> {}, refused |-> {},
     logged |-> {},
     by |-> [i \in Ids |-> -1], led |-> EmptyTable, engine |-> Nil, matched |-> -1,
     model |-> Zero, rows |-> {}, invalid |-> FALSE, resolved |-> FALSE, conn |-> -1,
     df |-> "", gone |-> {}, inner |-> Nil, outside |-> {},
     invoked |-> FALSE, h |-> NoTx, owner |-> FALSE, fnRes |-> Nil, panicked |-> FALSE,
     depth |-> 0, threaded |-> TRUE, begins |-> 0]

Top(c) == stack[c][Len(stack[c])]

\* Nesting depth of the body now running in chain c; 0 is the caller.
Depth(c) == Len(stack[c]) - 1

\* The contexts code of chain c can name: the one it started with and the
\* ones its Begin calls derived (closures see every enclosing variable).
Known(c) == {ctx0[c]} \cup {h \in Handles : tx[h].chain = c}

CanStep(c) == ops[c] < MaxOps /\ ~Top(c).panic

Max(S) == CHOOSE m \in S : \A n \in S : n <= m

\* The callers' account of the writes that succeeded through context x.
Account(txs, x, depth, puts) ==
    IF x \notin Handles THEN txs
    ELSE LET at(i) == {k \in 1..Len(puts) : puts[k].id = i}
         IN  [txs EXCEPT
                ![x].by  = [i \in Ids |-> IF at(i) # {} THEN depth ELSE @[i]],
                ![x].led = [i \in Ids |-> IF at(i) # {} THEN puts[Max(at(i))].row ELSE @[i]]]

PutOne(m) == << [id |-> m.ID, row |-> m] >>

PutMany(ms) == [k \in 1..Len(ms) |-> [id |-> ms[k].ID, row |-> ms[k]]]

DelMany(ms) == [k \in 1..Len(ms) |-> [id |-> ms[k].ID, row |-> Zero]]

\* A repository call of chain c with context x that answered out; matched
\* is -1 where the call counts no rows, df is "" where it takes no filter.
RepoStepSpec(c, op, x, invalid, out, puts, matched, df) ==
    LET st == IF out.write
              THEN Store(tx, db, out.conn, out.view,
                         {puts[k].id : k \in 1..Len(puts)} \cap Ids)
              ELSE [tx |-> tx, db |-> db]
    IN  /\ CanStep(c)
        /\ db' = st.db
        /\ tx' = Account(st.tx, x, Depth(c), IF out.err = Nil THEN puts ELSE << >>)
        /\ ret' = [ret EXCEPT ![c] =
                     [NoRet EXCEPT !.op = op, !.ctx = x, !.err = out.err,
                                   !.model = out.model,
                                   !.rows = out.rows, !.invalid = invalid,
                                   !.resolved = out.resolved, !.df = df,
                                   !.gone = IF out.err # Nil THEN {}
                                            ELSE Ids \cap {puts[k].id : k \in
                                                    {j \in 1..Len(puts) : puts[j].row = Zero}},
                                   !.conn = IF out.resolved /\ GetGormInstance(x).err = Nil
                                            THEN out.conn ELSE -1,
                                   !.engine = out.engine, !.matched = matched,
                                   !.issued = IF out.issued THEN {"exec"} ELSE {}]]
        /\ ops' = [ops EXCEPT ![c] = @ + 1]
        /\ stack' = IF Len(stack[c]) > 1 /\ out.write /\ out.conn = 0
                    THEN [stack EXCEPT ![c][Len(stack[c])].outside =
                            @ \cup ({puts[k].id : k \in 1..Len(puts)} \cap Ids)]
                    ELSE stack
        /\ UNCHANGED << ctx0, scopevars, fieldvars >>

\* A repository call that takes no Specification.
RepoStep(c, op, x, invalid, out, puts, matched) ==
    RepoStepSpec(c, op, x, invalid, out, puts, matched, "")

CallInsert(c, x, model, fail) ==
    RepoStep(c, "Insert", x, model = Zero, Insert(x, model, fail),
             PutOne(Insert(x, model, fail).model), -1)

CallUpdate(c, x, model, fail) ==
    RepoStep(c, "Update", x, model = Zero, Update(x, model, fail),
             PutOne(Update(x, model, fail).model), -1)

CallDelete(c, x, model, fail) ==
    RepoStep(c, "Delete", x, model = Zero, Delete(x, model, fail),
             << [id |-> model.ID, row |-> Zero] >>,
             IF Delete(x, model, fail).err # Nil THEN -1
             ELSE Cardinality({i \in {model.ID} : Seen(x)[i] # Zero}))

CallInsertMany(c, x, models, fail) ==
    RepoStep(c, "InsertMany", x, models = << >>, InsertMany(x, models, fail),
             PutMany(InsertMany(x, models, fail).models), -1)

CallDeleteMany(c, x, models, fail) ==
    RepoStep(c, "DeleteMany", x, models = << >>, DeleteMany(x, models, fail),
             DelMany(models), -1)

CallSaveMany(c, x, models, fail) ==
    RepoStep(c, "SaveMany", x, models = << >>, SaveMany(x, models, fail),
             PutMany(SaveMany(x, models, fail).models), -1)

CallFindAll(c, x, spec, fail) ==
    RepoStepSpec(c, "FindAll", x, FALSE, FindAll(x, spec, fail), << >>, -1,
                 spec.DeletedFilter)

CallFindFirst(c, x, spec, fail) ==
    \E first \in (IF FirstCandidates(x, spec) = {} THEN {Zero} ELSE FirstCandidates(x, spec)) :
        RepoStepSpec(c, "FindFirst", x, FALSE, FindFirst(x, spec, fail, first), << >>,
                     Cardinality(FirstCandidates(x, spec)), spec.DeletedFilter)

\* Begin called by the code of chain c.  The external caller threads the
\* context it gets back; a body only keeps it.
CallBegin(c, x, ok) ==
    LET b == Begin(tx, x, ok, c)
    IN  /\ CanStep(c)
        /\ tx' = IF b.err # Nil THEN b.tx
                 ELSE [b.tx EXCEPT ![b.ctx].onActive =
                                      x \in Handles /\ tx[x].state = "active"]
        /\ stack' = IF Depth(c) = 0 /\ b.err = Nil /\ x = Top(c).ctx
                    THEN [stack EXCEPT ![c][1].ctx = b.ctx]
                    ELSE stack
        /\ ret' = [ret EXCEPT ![c] =
                     [NoRet EXCEPT !.op = "Begin", !.ctx = x, !.err = b.err,
                                   !.h = b.ctx, !.issued = {"begin"},
                                   !.failed = IF b.err # Nil THEN {"begin"} ELSE {}]]
        /\ ops' = [ops EXCEPT ![c] = @ + 1]
        /\ UNCHANGED << db, ctx0, scopevars, fieldvars >>

\* The exported GetTxFromContext, called by the chain on a context it holds.
CallGetTxFromContext(c, x) ==
    LET g == GetTxFromContext(x)
    IN  /\ CanStep(c)
        /\ ret' = [ret EXCEPT ![c] =
                     [NoRet EXCEPT !.op = "GetTxFromContext", !.ctx = x, !.err = g.err,
                                   !.h = g.tx]]
        /\ ops' = [ops EXCEPT ![c] = @ + 1]
        /\ UNCHANGED << db, tx, ctx0, stack, scopevars, fieldvars >>

\* repo.GetGormInstance(x), called by the chain on a context it holds.
CallGetGormInstance(c, x) ==
    LET g == GetGormInstance(x)
    IN  /\ CanStep(c)
        /\ ret' = [ret EXCEPT ![c] =
                     [NoRet EXCEPT !.op = "GetGormInstance", !.ctx = x, !.err = g.err,
                                   !.resolved = TRUE,
                                   !.conn = IF g.err = Nil THEN g.conn ELSE -1]]
        /\ ops' = [ops EXCEPT ![c] = @ + 1]
        /\ UNCHANGED << db, tx, ctx0, stack, scopevars, fieldvars >>

CallCommit(c, x, ok) ==
    LET r == Commit(tx, db, x, ok)
    IN  /\ CanStep(c)
        /\ tx' = r.tx
        /\ db' = r.db
        /\ ret' = [ret EXCEPT ![c] =
                     [NoRet EXCEPT !.op = "Commit", !.ctx = x, !.err = r.err,
                                   !.issued = r.issued, !.failed = r.failed,
                                   !.refused = r.refused]]
        /\ ops' = [ops EXCEPT ![c] = @ + 1]
        /\ UNCHANGED << ctx0, stack, scopevars, fieldvars >>

CallRollback(c, x, ok) ==
    LET r == Rollback(tx, x, ok)
    IN  /\ CanStep(c)
        /\ tx' = r.tx
        /\ ret' = [ret EXCEPT ![c] =
                     [NoRet EXCEPT !.op = "Rollback", !.ctx = x, !.issued = r.issued,
                                   !.failed = r.failed, !.refused = r.refused,
                                   !.logged = r.logged]]
        /\ ops' = [ops EXCEPT ![c] = @ + 1]
        /\ UNCHANGED << db, ctx0, stack, scopevars, fieldvars >>

\* WithinTransaction(x, serviceFn) is called: either it returns at once with
\* an error, or serviceFn starts to run in a new frame.
CallWithinTransaction(c, x, ok) ==
    LET e == WithinTransactionEnter(tx, x, ok, c)
    IN  /\ CanStep(c)
        /\ Depth(c) < MaxDepth
        /\ tx' = e.tx
        /\ ops' = [ops EXCEPT ![c] = @ + 1]
        /\ IF e.invoke
           THEN /\ stack' = [stack EXCEPT ![c] = Append(@,
                               [owner |-> e.owner, inCtx |-> x, ctx |-> e.ctx, res |-> Nil,
                                panic |-> FALSE, threaded |-> TRUE, outside |-> {},
                                begins |-> IF e.owner THEN 1 ELSE 0])]
                /\ ret' = [ret EXCEPT ![c] =
                             [NoRet EXCEPT !.op = "serviceFn", !.ctx = x, !.issued = e.issued,
                                           !.invoked = TRUE, !.h = e.ctx, !.owner = e.owner,
                                           !.depth = Depth(c) + 1]]
           ELSE /\ stack' = [stack EXCEPT ![c][Len(stack[c])].res = e.err]
                /\ ret' = [ret EXCEPT ![c] =
                             [NoRet EXCEPT !.op = "WithinTransaction", !.ctx = x,
                                           !.err = e.err, !.issued = e.issued,
                                           !.failed = e.failed, !.depth = Depth(c) + 1]]
        /\ UNCHANGED << db, ctx0, scopevars, fieldvars >>

\* serviceFn of the innermost WithinTransaction call of chain c ends, and
\* with it the call: the frame is popped and the caller's frame learns the
\* result.  A panic goes on unwinding unless the caller is the external one.
ExitStep(c, r, panicked, commitOk, rollbackOk) ==
    LET f == Top(c)
        n == Len(stack[c])
        e == WithinTransactionExit(tx, db, f.owner, f.ctx, r, panicked, commitOk, rollbackOk)
        p == stack[c][n - 1]
    IN  /\ n > 1
        /\ tx' = e.tx
        /\ db' = e.db
        /\ stack' = [stack EXCEPT ![c] =
                       SubSeq(@, 1, n - 2) \o
                        << IF n = 2
                           THEN [p EXCEPT !.res = IF panicked THEN Nil ELSE e.err]
                           ELSE [p EXCEPT !.res = IF panicked THEN @ ELSE e.err,
                                          !.panic = panicked,
                                          !.threaded = @ /\ f.threaded /\ f.inCtx = p.ctx,
                                          !.begins = @ + f.begins] >>]
        /\ ret' = [ret EXCEPT ![c] =
                     [NoRet EXCEPT !.op = "WithinTransaction", !.ctx = f.inCtx,
                                   !.err = e.err, !.issued = e.issued, !.failed = e.failed,
                                   !.refused = e.refused, !.logged = e.logged,
                                   !.by = IF f.ctx \in Handles THEN tx[f.ctx].by ELSE @,
                                   !.led = IF f.ctx \in Handles THEN tx[f.ctx].led ELSE @,
                                   !.invoked = TRUE, !.h = f.ctx, !.owner = f.owner,
                                   !.fnRes = r, !.panicked = panicked, !.depth = n - 1,
                                   !.inner = f.res, !.outside = f.outside,
                                   !.threaded = f.threaded, !.begins = f.begins]]
        /\ UNCHANGED << ctx0, ops, scopevars, fieldvars >>

\* serviceFn returns nil, its own error, or the error an inner call gave it.
ServiceFnReturns(c, r, commitOk, rollbackOk) ==
    /\ Len(stack[c]) > 1
    /\ ~Top(c).panic
    /\ r \in {Nil, ErrService, Top(c).res}
    /\ ExitStep(c, r, FALSE, commitOk, rollbackOk)

\* serviceFn panics, or a panic from an inner call unwinds through it.
ServiceFnPanics(c, rollbackOk) ==
    /\ Len(stack[c]) > 1
    /\ ExitStep(c, Nil, TRUE, FALSE, rollbackOk)

\* ------------------------------------------------------------------ queries

\* The rows of the table the scopes are tried on: a key and the soft-delete
\* marker (deleted_at IS NOT NULL).
TableRows == [ID : 1..MaxRows, Deleted : BOOLEAN]

\* found before a query has run.
NoFind == [done |-> FALSE, rows |-> {}, err |-> Nil]

\* A row is stored, live or soft-deleted, before any query is built.
SeedRow(id, deleted) ==
    /\ query = NewQuery /\ ~found.done
    /\ \A r \in rows : r.ID # id
    /\ rows' = rows \cup {[ID |-> id, Deleted |-> deleted]}
    /\ UNCHANGED << query, found, txvars, fieldvars >>

\* db.Scopes(df.WhereDeleted()): one more scope on the query being built.
ApplyWhereDeleted(df) ==
    /\ ~found.done
    /\ Len(query.applied) < MaxScopes
    /\ query' = [WhereDeleted(df, query) EXCEPT !.applied = Append(@, df)]
    /\ UNCHANGED << rows, found, txvars, fieldvars >>

\* db.Scopes(OrderBy(f, ascending)): one more scope on the query being built.
ApplyOrderBy(f, ascending) ==
    /\ ~found.done
    /\ Len(query.applied) < MaxScopes
    /\ query' = [OrderBy(f, ascending, query) EXCEPT
                    !.applied = Append(@, "OrderBy"),
                    !.last = [NoArgs EXCEPT !.field = f, !.ascending = ascending]]
    /\ UNCHANGED << rows, found, txvars, fieldvars >>

\* db.Scopes(Paginate(page, limit)): one more scope on the query being built.
ApplyPaginate(page, limit) ==
    /\ ~found.done
    /\ Len(query.applied) < MaxScopes
    /\ query' = [Paginate(page, limit, query) EXCEPT
                    !.applied = Append(@, "Paginate"),
                    !.last = [NoArgs EXCEPT !.page = page, !.limit = limit]]
    /\ UNCHANGED << rows, found, txvars, fieldvars >>

\* Find(&out): the query runs, unless an error was added to it.
Find ==
    /\ ~found.done
    /\ found' = IF query.err # Nil
                THEN [done |-> TRUE, rows |-> {}, err |-> query.err]
                ELSE [done |-> TRUE, rows |-> Select(query, rows), err |-> Nil]
    /\ UNCHANGED << rows, query, txvars, fieldvars >>

\* The next query on the same table starts from a fresh session.
NewSession ==
    /\ found.done
    /\ query' = NewQuery
    /\ found' = NoFind
    /\ UNCHANGED << rows, txvars, fieldvars >>

\* One more rune of the field name under test.
TypeRune(r) ==
    /\ Len(field) < MaxLen
    /\ field' = Append(field, r)
    /\ verdict' = NoVerdict
    /\ UNCHANGED << txvars, scopevars >>

\* The validators are asked about the field name.
CheckFieldName ==
    /\ ~verdict.done
    /\ verdict' = [done |-> TRUE, valid |-> IsValidFieldName(field),
                   separated |-> IsValidFieldNameSeparated(field)]
    /\ UNCHANGED << field, txvars, scopevars >>

\* ------------------------------------------------------------------ specification

TxInit ==
    /\ db = EmptyTable
    /\ tx = [h \in Handles |-> NoHandle]
    /\ ctx0 \in {[c \in Chains |-> IF c = "c1" THEN x ELSE NoTx] : x \in {NoTx, BadVal}}
    /\ stack = [c \in Chains |-> << CallerFrame(ctx0[c]) >>]
    /\ ret = [c \in Chains |-> NoRet]
    /\ ops = [c \in Chains |-> 0]

ScopeIdle == rows = {} /\ query = NewQuery /\ found = NoFind

FieldIdle == field = << >> /\ verdict = NoVerdict

Init == TxInit /\ ScopeIdle /\ FieldIdle

\* The transaction primitives, called directly.
TxOps(c) ==
    \E x \in Known(c), ok \in BOOLEAN :
        \/ CallBegin(c, x, ok)
        \/ CallCommit(c, x, ok)
        \/ CallRollback(c, x, ok)

\* WithinTransaction: its call and the ways serviceFn ends.
WtOps(c) ==
    \/ \E x \in Known(c), ok \in BOOLEAN : CallWithinTransaction(c, x, ok)
    \/ \E r \in {Nil, ErrService, Top(c).res}, commitOk \in BOOLEAN, rollbackOk \in BOOLEAN :
           ServiceFnReturns(c, r, commitOk, rollbackOk)
    \/ \E rollbackOk \in BOOLEAN : ServiceFnPanics(c, rollbackOk)

WriteOps(c) ==
    \E x \in Known(c), fail \in BOOLEAN, model \in Models :
        \/ CallInsert(c, x, model, fail)
        \/ CallUpdate(c, x, model, fail)
        \/ CallDelete(c, x, model, fail)

BatchOps(c) ==
    \E x \in Known(c), fail \in BOOLEAN, models \in Slices :
        \/ CallInsertMany(c, x, models, fail)
        \/ CallDeleteMany(c, x, models, fail)
        \/ CallSaveMany(c, x, models, fail)

FindOps(c) ==
    \E x \in Known(c), fail \in BOOLEAN, spec \in Specifications :
        \/ CallFindAll(c, x, spec, fail)
        \/ CallFindFirst(c, x, spec, fail)

LookupOps(c) ==
    \E x \in Known(c) : CallGetTxFromContext(c, x) \/ CallGetGormInstance(c, x)

\* WithinTransaction called with a context it cannot inspect.
RefusedOps(c) ==
    \E x \in Known(c) :
        GetTxFromContext(x).err # Nil /\ CallWithinTransaction(c, x, TRUE)

\* One call chain running transactions around single-row writes.
Next == \E c \in {"c1"} : TxOps(c) \/ WtOps(c) \/ WriteOps(c)

\* One call chain using every repository method, inside and outside
\* transactions it begins and ends itself, and WithinTransaction where the
\* context makes it refuse.
NextRepo ==
    \E c \in {"c1"} :
        TxOps(c) \/ WriteOps(c) \/ BatchOps(c) \/ FindOps(c) \/ LookupOps(c) \/ RefusedOps(c)

Spec == Init /\ [][Next]_vars

SpecRepo == Init /\ [][NextRepo]_vars

\* The calls of one of several chains that run side by side: WithinTransaction
\* and writes that succeed at the engine, made through the context the
\* running code was handed.
ChainOps(c) ==
    \/ ops[c] < MaxChainOps /\ \E x \in Known(c), ok \in BOOLEAN : CallWithinTransaction(c, x, ok)
    \/ \E r \in {Nil, ErrService}, commitOk \in BOOLEAN : ServiceFnReturns(c, r, commitOk, TRUE)
    \/ ServiceFnPanics(c, TRUE)
    \/ /\ ops[c] < MaxChainOps
       /\ \E id \in 1..MaxId :
              CallInsert(c, Top(c).ctx, [ID |-> id, Deleted |-> FALSE], FALSE)

\* Independent call chains, each with the contexts it has itself, interleaved.
NextChains == \E c \in Chains : ChainOps(c)

SpecChains == Init /\ [][NextChains]_vars

\* Queries with soft-delete visibility scopes on a table of a few rows.
NextScopes ==
    \/ \E id \in 1..MaxRows, deleted \in BOOLEAN : SeedRow(id, deleted)
    \/ \E df \in DeletedFilters : ApplyWhereDeleted(df)
    \/ Find
    \/ NewSession

SpecScopes == Init /\ [][NextScopes]_vars

\* Queries built from ordering and pagination scopes.
NextQuery ==
    \/ \E f \in OrderFields, ascending \in BOOLEAN : ApplyOrderBy(f, ascending)
    \/ \E page \in Pages, limit \in Limits : ApplyPaginate(page, limit)
    \/ Find
    \/ NewSession

SpecQuery == Init /\ [][NextQuery]_vars

\* Field names typed rune by rune and checked.
NextField ==
    \/ \E r \in Runes : TypeRune(r)
    \/ CheckFieldName

SpecField == Init /\ [][NextField]_vars

\* ------------------------------------------------------------------ properties
\* ret[c] is the account of the last step of chain c: a state predicate on
\* it speaks of the moment that call returned; a step whose ret'[c] is a
\* new account is that call.

\* C1: a WithinTransaction call given a context without a handle, whose Begin
\* succeeded, whose fn returned nil and whose Commit succeeded, returns nil;
\* every row fn wrote through the context it received reads on the base
\* connection, after the call has returned, as fn left it; the deferred
\* Rollback has run by then and has undone none of it.
C1_CommitOnSuccess ==
    \A c \in Chains :
        LET r == ret[c]
        IN  (/\ r.op = "WithinTransaction" /\ r.invoked
             /\ r.ctx = NoTx /\ r.owner
             /\ r.fnRes = Nil /\ ~r.panicked
             /\ "commit" \in r.issued \ r.failed)
            => /\ r.err = Nil
               /\ "rollback" \in r.issued
               /\ tx[r.h].state = "committed"
               /\ \A i \in Ids : r.by[i] >= 0 => View(tx, db, 0)[i] = r.led[i]

C1_Witness ==
    LET r == ret["c1"]
    IN  /\ r.op = "WithinTransaction" /\ r.invoked /\ r.ctx = NoTx /\ r.owner
        /\ r.fnRes = Nil /\ ~r.panicked
        /\ r.issued = {"commit", "rollback"} /\ r.failed = {"rollback"}
        /\ r.err = Nil
        /\ \E i \in Ids : r.by[i] = 1 /\ r.led[i] # Zero /\ db[i] = r.led[i]

\* C2 as stated: a WithinTransaction call given a context without a handle
\* whose fn returned an error e returns e itself, the call does not invoke
\* Commit on the handle, the handle is rolled back when the call returns
\* and the call made none of fn's writes visible.
C2_AsStated ==
    [][\A c \in Chains :
         (/\ ret'[c] # ret[c] /\ Len(stack'[c]) < Len(stack[c])
          /\ ret'[c].op = "WithinTransaction"
          /\ ret'[c].ctx = NoTx /\ ret'[c].owner
          /\ ret'[c].fnRes # Nil /\ ~ret'[c].panicked)
         => /\ ret'[c].err = ret'[c].fnRes
            /\ "commit" \notin ret'[c].issued
            /\ tx'[ret'[c].h].state = "rolledback"
            /\ db' = db]_vars

\* C2: a WithinTransaction call given a context without a handle whose fn
\* returned an error e, fn not having called Commit on the context it
\* received, returns e itself (no wrapping), does not invoke Commit, leaves
\* the handle rolled back and the committed rows as they were; and no write
\* made through a context whose handle is open changes the committed rows.
C2_RollbackOnError ==
    [][\A c \in Chains :
         /\ (/\ ret'[c] # ret[c] /\ Len(stack'[c]) < Len(stack[c])
             /\ ret'[c].op = "WithinTransaction"
             /\ ret'[c].ctx = NoTx /\ ret'[c].owner
             /\ ret'[c].fnRes # Nil /\ ~ret'[c].panicked
             /\ ~tx[ret'[c].h].commitCalled)
            => /\ ret'[c].err = ret'[c].fnRes
               /\ "commit" \notin ret'[c].issued
               /\ ~tx'[ret'[c].h].commitCalled
               /\ tx'[ret'[c].h].state = "rolledback"
               /\ tx'[ret'[c].h].touched = {}
               /\ db' = db
         /\ (/\ ops'[c] # ops[c]
             /\ ret'[c].op \in {"Insert", "Update", "Delete"}
             /\ ret'[c].ctx \in Handles)
            => db' = db]_vars

C2_Witness ==
    LET r == ret["c1"]
    IN  /\ r.op = "WithinTransaction" /\ r.invoked /\ r.ctx = NoTx /\ r.owner
        /\ r.fnRes = ErrService /\ r.err = ErrService
        /\ r.issued = {"rollback"} /\ r.failed = {}
        /\ tx[r.h].state = "rolledback" /\ ~tx[r.h].commitCalled
        /\ \E i \in Ids : r.by[i] = 1 /\ r.led[i] # Zero /\ db[i] = Zero

\* C3: in a nest of WithinTransaction calls that starts on a context without
\* a handle and gives every inner call the context its enclosing fn
\* received, the calls open one transaction between them; an inner call
\* that returns issues nothing to the engine and leaves the transaction as
\* it is; the return of the outermost call leaves the handle finished, one
\* commit or rollback having reached it while it was open, and either every row
\* the bodies wrote, outer and inner, reads on the base connection as they
\* left it, or the committed rows are what they were; before that no write
\* through the handle changes the committed rows.
C3_NestedIsOneTransaction ==
    [][\A c \in Chains :
         /\ (/\ ret'[c] # ret[c] /\ Len(stack'[c]) < Len(stack[c])
             /\ ret'[c].op = "WithinTransaction"
             /\ ret'[c].depth = 1 /\ ret'[c].ctx = NoTx /\ ret'[c].owner
             /\ ret'[c].threaded)
            => /\ ret'[c].begins = 1
               /\ tx'[ret'[c].h].state \in {"committed", "rolledback"}
               /\ Cardinality(ret'[c].issued \ ret'[c].refused) =
                      IF tx[ret'[c].h].state = "active" THEN 1 ELSE 0
               /\ IF "commit" \in ret'[c].issued \ ret'[c].failed
                  THEN \A i \in Ids : ret'[c].by[i] >= 0 => db'[i] = ret'[c].led[i]
                  ELSE db' = db
         /\ (/\ ret'[c] # ret[c] /\ Len(stack'[c]) < Len(stack[c])
             /\ ret'[c].op = "WithinTransaction"
             /\ ret'[c].depth > 1 /\ ret'[c].ctx = stack'[c][Len(stack'[c])].ctx
             /\ ret'[c].ctx \in Handles)
            => /\ ret'[c].issued = {}
               /\ tx' = tx
               /\ db' = db
         /\ (/\ ops'[c] # ops[c]
             /\ ret'[c].op \in {"Insert", "Update", "Delete"}
             /\ ret'[c].ctx \in Handles)
            => db' = db]_vars

C3_Witness ==
    LET r == ret["c1"]
    IN  /\ r.op = "WithinTransaction" /\ r.invoked /\ r.depth = 1
        /\ r.ctx = NoTx /\ r.owner /\ r.threaded /\ r.begins = 1
        /\ r.issued \ r.failed = {"commit"}
        /\ \E i, j \in Ids :
              /\ r.by[i] = 1 /\ r.by[j] = 2
              /\ r.led[i] # Zero /\ r.led[j] # Zero
              /\ db[i] = r.led[i] /\ db[j] = r.led[j]

\* C4 as stated: whatever Begin, Commit, Rollback and WithinTransaction calls
\* were made, of the handles on the chain of contexts leading to any context
\* at most one is active.
C4_AsStated ==
    \A x \in Handles :
        Cardinality({h \in ChainOf(tx, x) : tx[h].state = "active"}) <= 1

\* C4: as long as no direct Begin call was given a context whose handle was
\* active, of the handles on the chain of contexts leading to any context
\* at most one is active, whatever Commit, Rollback and WithinTransaction
\* calls were made and at whatever nesting depth.
C4_OneActiveHandle ==
    \A x \in Handles :
        (\A h \in ChainOf(tx, x) : ~tx[h].onActive)
        => Cardinality({h \in ChainOf(tx, x) : tx[h].state = "active"}) <= 1

C4_Witness ==
    \E x \in Handles :
        /\ \A h \in ChainOf(tx, x) : ~tx[h].onActive
        /\ Cardinality(ChainOf(tx, x)) = 2
        /\ tx[x].state = "active"
        /\ Len(stack["c1"]) = 3

\* C5: a Commit call given a context without a handle returns nil and
\* issues nothing to the engine: no handle and no committed row changes.
C5_CommitWithoutTx ==
    [][\A c \in Chains :
         (/\ ops'[c] # ops[c]
          /\ ret'[c].op = "Commit" /\ ret'[c].ctx = NoTx)
         => /\ ret'[c].err = Nil
            /\ ret'[c].issued = {}
            /\ tx' = tx
            /\ db' = db]_vars

C5_Witness ==
    /\ ret["c1"].op = "Commit" /\ ret["c1"].ctx = NoTx
    /\ ret["c1"].err = Nil /\ ret["c1"].issued = {}
    /\ db # EmptyTable
    /\ \E h \in Handles : tx[h].state = "active" /\ tx[h].touched # {}

\* C6: a Rollback call given a context without a handle returns (it has no
\* result to return an error in, and it starts no panic), issues nothing to
\* the engine and changes no handle and no committed row.
C6_RollbackWithoutTx ==
    [][\A c \in Chains :
         (/\ ops'[c] # ops[c]
          /\ ret'[c].op = "Rollback" /\ ret'[c].ctx = NoTx)
         => /\ ret'[c].err = Nil
            /\ ~stack'[c][Len(stack'[c])].panic
            /\ stack' = stack
            /\ ret'[c].issued = {}
            /\ tx' = tx
            /\ db' = db]_vars

C6_Witness ==
    /\ ret["c1"].op = "Rollback" /\ ret["c1"].ctx = NoTx
    /\ ret["c1"].issued = {}
    /\ ret["c1"].logged = {<< "no transaction is running" >>}
    /\ db # EmptyTable
    /\ \E h \in Handles : tx[h].state = "active" /\ tx[h].touched # {}

\* C7: Insert, Update and Delete given the zero value return an error that
\* mentions "zero value", InsertMany, DeleteMany and SaveMany given an empty
\* slice one that mentions "empty"; the call has then neither resolved a
\* connection nor issued a statement, and no handle and no committed row
\* has changed.
C7_ValidationFirst ==
    [][\A c \in Chains :
         (ops'[c] # ops[c] /\ ret'[c].invalid)
         => /\ ret'[c].op \in {"Insert", "Update", "Delete"}
                  => Mentions(ret'[c].err, << "zero", "value" >>)
            /\ ret'[c].op \in {"InsertMany", "DeleteMany", "SaveMany"}
                  => Mentions(ret'[c].err, << "empty" >>)
            /\ ret'[c].op \in {"Insert", "Update", "Delete",
                               "InsertMany", "DeleteMany", "SaveMany"}
            /\ ~ret'[c].resolved
            /\ ret'[c].issued = {}
            /\ tx' = tx
            /\ db' = db]_vars

C7_Witness ==
    /\ ret["c1"].op = "Delete" /\ ret["c1"].invalid
    /\ ret["c1"].ctx = BadVal
    /\ ret["c1"].err = ErrZeroValue
    /\ ~ret["c1"].resolved
    /\ db # EmptyTable

C9_DeletedVisibility ==
    /\ found.done /\ query.applied = << "ExcludeDeleted" >>
          => /\ found.rows = {r \in rows : ~r.Deleted}
             /\ found.rows \cap Select(OnlyDeletedWhereDeleted(NewQuery), rows) = {}
             /\ found.rows \cup Select(OnlyDeletedWhereDeleted(NewQuery), rows) = rows
    /\ found.done /\ query.applied = << "OnlyDeleted" >>
          => /\ found.rows = {r \in rows : r.Deleted}
             /\ found.rows = rows \ Select(ExcludeDeletedWhereDeleted(NewQuery), rows)
    /\ found.done /\ query.applied = << "IncludeDeleted" >>
          => found.rows = rows
    /\ (Cardinality(rows) = 4 /\ Cardinality({r \in rows : r.Deleted}) = 2 /\ found.done)
          => /\ query.applied = << "ExcludeDeleted" >> => Cardinality(found.rows) = 2
             /\ query.applied = << "OnlyDeleted" >> => Cardinality(found.rows) = 2
             /\ query.applied = << "IncludeDeleted" >> => Cardinality(found.rows) = 4

C9_Witness ==
    /\ Cardinality(rows) = 4
    /\ Cardinality({r \in rows : r.Deleted}) = 2
    /\ found.done /\ query.applied = << "OnlyDeleted" >>
    /\ Cardinality(found.rows) = 2
    /\ \A r \in found.rows : r.Deleted

\* C10: every field name of one rune or more, all of them ASCII letters,
\* digits or underscores, is answered true by IsValidFieldName, in either
\* form of it.
C10_WordNamesValid ==
    (/\ verdict.done
     /\ Len(field) >= 1
     /\ \A k \in 1..Len(field) :
           field[k] \in (65..90) \cup (97..122) \cup (48..57) \cup {95})
    => (verdict.valid /\ verdict.separated)

C10_Witness ==
    /\ verdict.done /\ verdict.valid /\ verdict.separated
    /\ Len(field) = MaxLen
    /\ field[1] = 95 /\ field[2] = 57
    /\ \A k \in 1..Len(field) :
          field[k] \in (65..90) \cup (97..122) \cup (48..57) \cup {95}

\* C11: IsValidFieldName (internal/gorm.go) answers false for every name
\* with a leading dot, a trailing dot or two dots in a row, and true for
\* every name made of non-empty segments of ASCII letters, digits and
\* underscores joined by single dots.
C11_DotSeparatesSegments ==
    LET n == Len(field)
        misplaced == /\ n >= 1
                     /\ \/ field[1] = 46
                        \/ field[n] = 46
                        \/ \E k \in 1..(n - 1) : field[k] = 46 /\ field[k + 1] = 46
        segments == /\ n >= 1
                    /\ \A k \in 1..n :
                          field[k] \in (65..90) \cup (97..122) \cup (48..57) \cup {95, 46}
                    /\ ~misplaced
    IN  verdict.done => /\ misplaced => ~verdict.valid
                        /\ segments => verdict.valid

\* The same of the other form of IsValidFieldName, which does keep it.
C11_SeparatedForm ==
    LET n == Len(field)
        misplaced == /\ n >= 1
                     /\ \/ field[1] = 46
                        \/ field[n] = 46
                        \/ \E k \in 1..(n - 1) : field[k] = 46 /\ field[k + 1] = 46
        segments == /\ n >= 1
                    /\ \A k \in 1..n :
                          field[k] \in (65..90) \cup (97..122) \cup (48..57) \cup {95, 46}
                    /\ ~misplaced
    IN  verdict.done => /\ misplaced => ~verdict.separated
                        /\ segments => verdict.separated

\* C12: IsValidFieldName, in either form, answers false for the empty name
\* and for every name that holds, at any place, a rune that is not an ASCII
\* letter, a digit, an underscore or a dot.
C12_OtherRunesRejected ==
    (/\ verdict.done
     /\ \/ Len(field) = 0
        \/ \E k \in 1..Len(field) :
              field[k] \notin (65..90) \cup (97..122) \cup (48..57) \cup {95, 46})
    => (~verdict.valid /\ ~verdict.separated)

C12_Witness ==
    /\ verdict.done /\ ~verdict.valid /\ ~verdict.separated
    /\ Len(field) = MaxLen
    /\ field[1] = 97 /\ field[2] = 95
    /\ field[MaxLen] = 20013

\* C13: an OrderBy scope given a field name that IsValidFieldName refuses adds
\* the validation error to the query and leaves its ORDER BY fragments as
\* they were; given a name IsValidFieldName accepts it appends exactly that
\* name with ASC when ascending and with DESC otherwise, and adds no error.
\* So every ORDER BY fragment of the query names an accepted field, and the
\* query that runs with an error on it answers that error and no rows.
C13_OrderByValidates ==
    [][/\ query'.applied = Append(query.applied, "OrderBy") =>
           LET a == query'.last
           IN  /\ ~IsValidFieldName(a.field) =>
                     /\ query'.order = query.order
                     /\ query'.err = query.err \o ErrInvalidFieldName
                     /\ query'.err # Nil
               /\ IsValidFieldName(a.field) =>
                     /\ query'.order =
                           Append(query.order,
                                  << a.field, IF a.ascending THEN "ASC" ELSE "DESC" >>)
                     /\ query'.err = query.err
               /\ \A k \in 1..Len(query'.order) : IsValidFieldName(query'.order[k][1])
       /\ (~found.done /\ found'.done /\ query.err # Nil) =>
              (found'.err = query.err /\ found'.rows = {})]_vars

\* A query ordered by "a_0" descending and then given the name "a a" has run:
\* it has the one fragment and answered the error.
C13_Witness ==
    /\ query.applied = << "OrderBy", "OrderBy" >>
    /\ query.last.field = << 97, 32, 97 >>
    /\ query.order = << << << 97, 95, 48 >>, "DESC" >> >>
    /\ found.done
    /\ found.err = ErrInvalidFieldName

\* C14: a Paginate scope sets LIMIT to limit and OFFSET to
\* (max(page, 1) - 1) * limit and nothing else; for a page below 1 the query
\* is the one Paginate(1, limit) builds, with offset 0.
C14_PaginateClamps ==
    [][query'.applied = Append(query.applied, "Paginate") =>
           LET a == query'.last
               m == IF a.page > 1 THEN a.page ELSE 1
           IN  /\ query'.limit = a.limit
               /\ query'.offset = (m - 1) * a.limit
               /\ [query' EXCEPT !.limit = query.limit, !.offset = query.offset,
                                 !.applied = query.applied, !.last = query.last] = query
               /\ a.page < 1 =>
                     /\ query'.offset = 0
                     /\ [query' EXCEPT !.last = NoArgs] =
                           [Paginate(1, a.limit, query) EXCEPT
                              !.applied = Append(@, "Paginate"), !.last = NoArgs]]_vars

\* A query paginated at page 2 and then at a negative page, by the largest
\* limit, has run: its offset is 0.
C14_Witness ==
    /\ query.applied = << "Paginate", "Paginate" >>
    /\ query.last.page < 0
    /\ query.last.limit = MaxLimit
    /\ query.limit = MaxLimit
    /\ query.offset = 0
    /\ found.done

C16_ReusePath ==
    [][\A c \in Chains :
         LET n == Len(stack[c])
             f == Top(c)
         IN  /\ (Len(stack'[c]) = n + 1 /\ ret'[c].ctx \in Handles) =>
                   /\ stack'[c][n + 1].ctx = ret'[c].ctx
                   /\ stack'[c][n + 1].inCtx = ret'[c].ctx
                   /\ ~stack'[c][n + 1].owner
                   /\ ret'[c].issued = {}
                   /\ tx' = tx /\ db' = db
             /\ (ops'[c] = ops[c] + 1 /\ ret'[c].op = "WithinTransaction") =>
                   ret'[c].ctx \notin Handles
             /\ (Len(stack'[c]) = n - 1 /\ f.inCtx \in Handles) =>
                   /\ ret'[c].h = f.inCtx
                   /\ ret'[c].issued = {} /\ ret'[c].logged = {}
                   /\ ~ret'[c].panicked => ret'[c].err = ret'[c].fnRes
                   /\ tx' = tx /\ db' = db
                   /\ tx[f.inCtx].state = "active" => tx'[f.inCtx].state = "active"]_vars

\* An inner WithinTransaction call, made by serviceFn of an outer one with
\* the context it was given, has returned serviceFn's error and the
\* transaction is active.
C16_Witness ==
    /\ ret["c1"].op = "WithinTransaction"
    /\ ret["c1"].invoked /\ ~ret["c1"].owner
    /\ ret["c1"].ctx \in Handles
    /\ ret["c1"].depth = 2
    /\ ret["c1"].err = ErrService
    /\ tx[ret["c1"].ctx].state = "active"
    /\ tx[ret["c1"].ctx].parent = NoTx
    /\ Len(stack["c1"]) = 2

\* C17: when the frame of a WithinTransaction call that began a transaction
\* exits - serviceFn returned nil, returned an error or panicked, the commit
\* succeeded or failed - Rollback is called on the context of that
\* transaction and the transaction is finished, committed or rolled back;
\* and a finished transaction never becomes active again.
C17_RollbackOnEveryExit ==
    [][\A c \in Chains :
         LET n == Len(stack[c])
             f == Top(c)
         IN  /\ (Len(stack'[c]) = n - 1 /\ f.owner) =>
                   /\ ret'[c].h = f.ctx
                   /\ "rollback" \in ret'[c].issued
                   /\ tx'[f.ctx].state \in {"committed", "rolledback"}
                   /\ (ret'[c].fnRes = Nil /\ ~ret'[c].panicked) <=> "commit" \in ret'[c].issued
             /\ \A h \in Handles :
                   tx[h].state \in {"committed", "rolledback"} => tx'[h].state = tx[h].state]_vars

\* serviceFn of a call that began a transaction panicked after writing
\* through it: Rollback was called and the transaction is rolled back.
C17_Witness ==
    /\ ret["c1"].op = "WithinTransaction"
    /\ ret["c1"].owner /\ ret["c1"].panicked
    /\ ret["c1"].issued = {"rollback"}
    /\ ret["c1"].refused = {}
    /\ \E i \in Ids : ret["c1"].by[i] # -1
    /\ tx[ret["c1"].h].state = "rolledback"

\* C18: a Rollback call returns no error and starts no panic whatever the
\* context carries and whatever state the handle is in; refused on a handle
\* already committed or rolled back it logs nothing, and any other failure
\* of the rollback is logged and nothing more.  So a WithinTransaction call
\* that began a transaction returns serviceFn's error when there is one and
\* otherwise what Commit returned, also when its deferred Rollback failed.
C18_RollbackNeverRaises ==
    [][\A c \in Chains :
         LET n == Len(stack[c])
             f == Top(c)
         IN  /\ (ops'[c] # ops[c] /\ ret'[c].op = "Rollback") =>
                   /\ ret'[c].err = Nil
                   /\ stack' = stack
                   /\ db' = db
                   /\ "rollback" \in ret'[c].refused =>
                         (ret'[c].logged = {} /\ tx' = tx)
                   /\ "rollback" \in ret'[c].failed \ ret'[c].refused =>
                         ret'[c].logged = {<< "rollback error:" >> \o ErrEngine}
             /\ (Len(stack'[c]) = n - 1 /\ f.owner) =>
                   /\ "rollback" \in ret'[c].issued
                   /\ ~ret'[c].panicked =>
                         ret'[c].err =
                            IF ret'[c].fnRes # Nil THEN ret'[c].fnRes
                            ELSE Commit(tx, db, f.ctx, "commit" \notin ret'[c].failed).err
                   /\ stack'[c][n - 1].panic = (ret'[c].panicked /\ n > 2)]_vars

\* serviceFn returned its error, the deferred Rollback failed at the engine
\* and was logged, and the call returned serviceFn's error.
C18_Witness ==
    /\ ret["c1"].op = "WithinTransaction"
    /\ ret["c1"].owner /\ ~ret["c1"].panicked
    /\ ret["c1"].fnRes = ErrService
    /\ ret["c1"].err = ErrService
    /\ ret["c1"].failed = {"rollback"}
    /\ ret["c1"].refused = {}
    /\ ret["c1"].logged = {<< "rollback error:" >> \o ErrEngine}

\* C19: a Commit call given a context that carries a handle issues the
\* commit on that handle; when it succeeds the writes made through the
\* handle become the committed rows and nil is returned; when it fails the
\* committed rows stay and the failure is returned wrapped in 'error
\* processing transaction'.  Either way the handle is finished: every later
\* call given that context leaves the committed rows and the handle as
\* they are.
C19_CommitCloses ==
    [][\A c \in Chains :
         LET x == ret'[c].ctx
             called == ops'[c] # ops[c] \/ Len(stack'[c]) # Len(stack[c])
         IN  /\ (ops'[c] # ops[c] /\ ret'[c].op = "Commit" /\ x \in Handles) =>
                   /\ ret'[c].issued = {"commit"}
                   /\ tx'[x].state \in {"committed", "rolledback"}
                   /\ IF "commit" \in ret'[c].failed
                      THEN /\ Len(ret'[c].err) > 1
                           /\ Head(ret'[c].err) = "error processing transaction"
                           /\ Tail(ret'[c].err) \in {ErrEngine, ErrTxDone}
                           /\ db' = db
                      ELSE /\ ret'[c].err = Nil
                           /\ tx[x].state = "active" /\ tx'[x].state = "committed"
                           /\ db' = View(tx, db, x)
             /\ (called /\ x \in Handles /\ tx[x].state \in {"committed", "rolledback"}) =>
                   /\ db' = db
                   /\ tx'[x].state = tx[x].state
                   /\ tx'[x].touched = {}]_vars

\* The engine failed the commit of an open handle: Commit returned the
\* failure wrapped and the handle is rolled back.
C19_Witness ==
    /\ ret["c1"].op = "Commit"
    /\ ret["c1"].ctx \in Handles
    /\ ret["c1"].failed = {"commit"}
    /\ ret["c1"].refused = {}
    /\ ret["c1"].err = << "error processing transaction" >> \o ErrEngine
    /\ tx[ret["c1"].ctx].state = "rolledback"

\* C20: a WithinTransaction call given a context without a handle whose
\* Begin fails (it opens no transaction) returns at once the error of Begin,
\* wrapped: serviceFn is not invoked, Begin is the only call issued (no
\* Commit, no Rollback), nothing is logged, no handle changes, the chain
\* holds no new context, and the committed rows are unchanged.
C20_BeginFailure ==
    [][\A c \in Chains :
         (/\ ops'[c] # ops[c]
          /\ ret'[c].op \in {"WithinTransaction", "serviceFn"}
          /\ ret'[c].ctx = NoTx
          /\ tx' = tx)
         => /\ ret'[c].op = "WithinTransaction"
            /\ ~ret'[c].invoked
            /\ stack'[c] = [stack[c] EXCEPT ![Len(stack[c])].res = ret'[c].err]
            /\ ret'[c].err =
                  << "error starting transaction", "error processing transaction" >>
                    \o ErrEngine
            /\ ret'[c].issued = {"begin"}
            /\ ret'[c].failed = {"begin"}
            /\ ret'[c].logged = {}
            /\ db' = db
            /\ Known(c)' = Known(c)]_vars

\* Rows were committed, then a WithinTransaction call on the plain context
\* failed to begin: it returned the error without running serviceFn, and no
\* transaction is open.
C20_Witness ==
    /\ ret["c1"].op = "WithinTransaction"
    /\ ret["c1"].ctx = NoTx
    /\ ~ret["c1"].invoked
    /\ ret["c1"].failed = {"begin"}
    /\ ret["c1"].err # Nil
    /\ db # EmptyTable
    /\ \A h \in Handles : tx[h].state # "active"
    /\ Len(stack["c1"]) = 1

\* C21: the error that Begin, Commit or WithinTransaction returns for a begin
\* or a commit that failed is the underlying error with exactly one message
\* wrapped around it.
C21_WrappedOnce ==
    \A c \in Chains :
        (/\ ret[c].op \in {"Begin", "Commit", "WithinTransaction"}
         /\ ret[c].failed \cap {"begin", "commit"} # {})
        => /\ Len(ret[c].err) = 2
           /\ Tail(ret[c].err) \in {ErrEngine, ErrTxDone}

\* The same of Begin and Commit called directly and of the commit that
\* WithinTransaction makes, which do keep it.
C21_WrappedOnceButBeginWithin ==
    \A c \in Chains :
        (/\ ret[c].op \in {"Begin", "Commit", "WithinTransaction"}
         /\ ret[c].failed \cap {"begin", "commit"} # {}
         /\ ~(ret[c].op = "WithinTransaction" /\ "begin" \in ret[c].failed))
        => /\ ret[c].err = << "error processing transaction" >> \o Tail(ret[c].err)
           /\ Tail(ret[c].err) \in {ErrEngine, ErrTxDone}

\* WithinTransaction could not begin: the error it returned has two
\* messages around the engine's.
C21_Witness ==
    /\ ret["c1"].op = "WithinTransaction"
    /\ ret["c1"].failed = {"begin"}
    /\ ret["c1"].err =
          << "error starting transaction", "error processing transaction" >> \o ErrEngine

\* C22: every repository call, GetGormInstance included, resolves its
\* connection from the context it is given: the handle the context carries,
\* else the base connection, and none when the stored value is no handle.
\* A statement it issues runs on that connection: through a handle only that
\* handle's uncommitted writes change, on the base connection no handle
\* changes, a FindAll reads what that connection sees.  No repository call
\* opens, commits or rolls back a transaction.
C22_ConnectionFromContext ==
    [][\A c \in Chains :
         LET x == ret'[c].ctx
         IN  (/\ ops'[c] # ops[c]
              /\ ret'[c].op \in {"Insert", "FindAll", "FindFirst", "Update", "Delete",
                                 "InsertMany", "DeleteMany", "SaveMany", "GetGormInstance"})
             => /\ ret'[c].conn \in {-1, IF x \in Handles THEN x ELSE 0}
                /\ (ret'[c].resolved /\ x # BadVal) => ret'[c].conn # -1
                /\ x = BadVal => ret'[c].conn = -1
                /\ ret'[c].issued # {} => ret'[c].conn # -1
                /\ \A h \in Handles :
                      /\ tx'[h].state = tx[h].state
                      /\ h # x => tx'[h] = tx[h]
                /\ x \in Handles => db' = db
                /\ (ret'[c].op = "FindAll" /\ ret'[c].err = Nil) =>
                      ret'[c].rows \subseteq Rows(View(tx, db, ret'[c].conn))
                /\ ret'[c].op = "GetGormInstance" => (db' = db /\ tx' = tx)]_vars

\* A FindAll given a context with a handle answered rows that only that
\* handle sees.
C22_Witness ==
    /\ ret["c1"].op = "FindAll"
    /\ ret["c1"].ctx \in Handles
    /\ ret["c1"].conn = ret["c1"].ctx
    /\ ret["c1"].rows # {}
    /\ db = EmptyTable
    /\ tx[ret["c1"].ctx].state = "active"

\* C23: when FindAll or FindFirst has been given a Specification whose
\* DeletedFilter is unset, the query it built is the one it builds for the
\* same Specification with IncludeDeleted, with no condition on the
\* soft-delete marker, and what it answered - rows, candidates for the first
\* row, error - is what it answers for IncludeDeleted, whatever rows the
\* connection sees.  (A query changes nothing, so the call just made is
\* compared with calls made now.)
C23_UnsetIsIncludeDeleted ==
    \A c \in Chains :
        LET x == ret[c].ctx
            Unset == {s \in Specifications : s.DeletedFilter = "nil"}
            incl(s) == [s EXCEPT !.DeletedFilter = "IncludeDeleted"]
        IN  (ret[c].op \in {"FindAll", "FindFirst"} /\ ret[c].df = "nil")
            => /\ \A s \in Unset :
                     /\ FindScopes(s) = FindScopes(incl(s))
                     /\ \A w \in FindScopes(s).where : w.frag = "spec"
                     /\ \A fail \in BOOLEAN : FindAll(x, s, fail) = FindAll(x, incl(s), fail)
                     /\ FirstCandidates(x, s) = FirstCandidates(x, incl(s))
                     /\ \A fail \in BOOLEAN, first \in FirstCandidates(x, s) \cup {Zero} :
                           FindFirst(x, s, fail, first) = FindFirst(x, incl(s), fail, first)
               /\ ret[c].op = "FindAll" =>
                     \E s \in Unset, fail \in BOOLEAN :
                        /\ ret[c].rows = FindAll(x, incl(s), fail).rows
                        /\ ret[c].err = FindAll(x, incl(s), fail).err
                        /\ ret[c].err = Nil =>
                              ret[c].rows =
                                 {r \in Rows(Seen(x)) :
                                    Matches(r, [frag |-> "spec", model |-> s.Model])}
               /\ ret[c].op = "FindFirst" =>
                     \E s \in Unset, fail \in BOOLEAN :
                        /\ ret[c].model \in FirstCandidates(x, incl(s)) \cup {Zero}
                        /\ ret[c].err = FindFirst(x, incl(s), fail, ret[c].model).err

\* A FindAll with the policy unset answered a live and a soft-deleted row.
C23_Witness ==
    /\ ret["c1"].op = "FindAll"
    /\ ret["c1"].df = "nil"
    /\ \E r \in ret["c1"].rows : r.Deleted
    /\ \E r \in ret["c1"].rows : ~r.Deleted

\* C24: after a Delete or DeleteMany that returned nil, the rows of the keys
\* it was given are gone from what its connection sees - absent, not kept
\* with the soft-delete marker set - so FindAll and FindFirst through that
\* context answer none of them under any DeletedFilter, OnlyDeleted and
\* IncludeDeleted included.
C24_HardDelete ==
    \A c \in Chains :
        (ret[c].op \in {"Delete", "DeleteMany"} /\ ret[c].err = Nil)
        => /\ ret[c].gone # {}
           /\ \A i \in ret[c].gone : Seen(ret[c].ctx)[i] = Zero
           /\ \A s \in Specifications :
                 /\ FindAll(ret[c].ctx, s, FALSE).err = Nil
                 /\ \A r \in FindAll(ret[c].ctx, s, FALSE).rows \cup FirstCandidates(ret[c].ctx, s) :
                       r.ID \notin ret[c].gone

\* A Delete on the base connection removed a row, and another row is left.
C24_Witness ==
    /\ ret["c1"].op = "Delete"
    /\ ret["c1"].err = Nil
    /\ ret["c1"].ctx = NoTx
    /\ ret["c1"].matched = 1
    /\ ret["c1"].gone # {}
    /\ \E r \in FindAll(NoTx, NoSpec, FALSE).rows : r.Deleted

\* C25: with independent call chains interleaved, each running
\* WithinTransaction on its own contexts: the transactions two chains have
\* open are different handles, each begun by the chain that holds it; a
\* step of one chain changes no handle of another chain and nothing another
\* chain holds or was answered; and a step that rolls back leaves the
\* committed rows, another chain's among them, as they are.
C25_ChainsAreIsolated ==
    [][\A c \in Chains :
         (ops'[c] # ops[c] \/ Len(stack'[c]) # Len(stack[c]))
         => /\ \A h \in Handles :
                  tx'[h] # tx[h] => (tx'[h].chain = c /\ tx[h].chain \in {c, ""})
            /\ \A d \in Chains \ {c} : stack'[d] = stack[d] /\ ret'[d] = ret[d]
            /\ \A k \in 1..Len(stack'[c]) :
                  stack'[c][k].ctx \in Handles => tx'[stack'[c][k].ctx].chain = c
            /\ \A d \in Chains \ {c}, k \in 1..Len(stack'[c]) :
                  \A j \in 1..Len(stack'[d]) :
                     stack'[c][k].ctx \in Handles => stack'[d][j].ctx # stack'[c][k].ctx
            /\ ret'[c].h \in Handles => tx'[ret'[c].h].chain = c
            /\ "rollback" \in ret'[c].issued \ ret'[c].refused =>
                  (db' = db /\ "commit" \notin ret'[c].issued \ ret'[c].failed)]_vars

\* Both chains ran WithinTransaction at the same time, each writing a row
\* of its own: the first was rolled back after the second had committed,
\* and the second's row is there.
C25_Witness ==
    /\ ret["c1"].op = "WithinTransaction" /\ ret["c2"].op = "WithinTransaction"
    /\ ret["c1"].owner /\ ret["c2"].owner
    /\ ret["c1"].h # ret["c2"].h
    /\ ret["c1"].fnRes = ErrService
    /\ ret["c2"].err = Nil /\ ~ret["c2"].panicked
    /\ tx[ret["c1"].h].state = "rolledback"
    /\ tx[ret["c2"].h].state = "committed"
    /\ ret["c1"].by[1] # -1
    /\ ret["c2"].by[2] # -1
    /\ db[2] # Zero /\ db[1] = Zero

\* C26: a nested WithinTransaction call that returns an error changes no
\* handle and no committed row: nothing is rolled back by it.  When
\* serviceFn of the call that began the transaction has had an error from an
\* inner call and returns nil all the same, that call goes on to Commit, and
\* with the commit done the transaction is committed and every row written
\* through its context, by the outer body or by an inner one, the failed
\* one included, reads on the base connection as it was left.
C26_OutermostDecides ==
    [][\A c \in Chains :
         LET n == Len(stack[c])
             f == Top(c)
         IN  /\ (/\ Len(stack'[c]) = n - 1 /\ ~f.owner /\ f.inCtx \in Handles
                 /\ ret'[c].err # Nil)
                => /\ tx' = tx /\ db' = db
                   /\ ret'[c].issued = {}
                   /\ stack'[c][n - 1].res = ret'[c].err
             /\ (/\ Len(stack'[c]) = n - 1 /\ f.owner
                 /\ f.res # Nil /\ ret'[c].fnRes = Nil /\ ~ret'[c].panicked)
                => /\ ret'[c].inner = f.res
                   /\ "commit" \in ret'[c].issued
                   /\ "commit" \notin ret'[c].failed =>
                         /\ ret'[c].err = Nil
                         /\ tx'[f.ctx].state = "committed"
                         /\ \A i \in Ids : tx[f.ctx].by[i] >= 0 => db'[i] = tx[f.ctx].led[i]]_vars

\* The inner body wrote a row and failed, the outer body wrote another and
\* returned nil: both rows are committed.
C26_Witness ==
    LET r == ret["c1"]
    IN  /\ r.op = "WithinTransaction" /\ r.owner /\ r.ctx = NoTx
        /\ r.inner = ErrService
        /\ r.fnRes = Nil /\ r.err = Nil /\ ~r.panicked
        /\ tx[r.h].state = "committed"
        /\ \E i, j \in Ids : /\ r.by[i] = 2 /\ r.by[j] = 1
                             /\ r.led[i] # Zero /\ db[i] = r.led[i]
                             /\ r.led[j] # Zero /\ db[j] = r.led[j]

\* C27: Begin changes nothing of the context it was given or of any handle
\* already begun, and answers a context that is not the one given.  A write
\* made in serviceFn of a call that began a transaction, given a context
\* without a handle (the one the call itself was given), runs on the base
\* connection: the row is committed at once and no handle changes.  When
\* the call then ends with serviceFn's error or a panic and the transaction
\* is rolled back, the committed rows, that one among them, stay.
C27_OriginalContextIsOutside ==
    [][\A c \in Chains :
         LET n == Len(stack[c])
             f == Top(c)
             x == ret'[c].ctx
         IN  /\ (ops'[c] # ops[c] /\ ret'[c].op = "Begin") =>
                   /\ ctx0' = ctx0 /\ db' = db
                   /\ Known(c) \subseteq Known(c)'
                   /\ \A h \in Handles : tx[h].state # "unused" => tx'[h] = tx[h]
                   /\ ret'[c].err = Nil =>
                        (ret'[c].h # x /\ tx[ret'[c].h].state = "unused"
                         /\ tx'[ret'[c].h].parent = x)
             /\ (/\ ops'[c] # ops[c]
                 /\ ret'[c].op \in {"Insert", "Update"}
                 /\ ret'[c].err = Nil
                 /\ f.owner /\ x = f.inCtx)
                => /\ tx' = tx
                   /\ db'[ret'[c].model.ID] = ret'[c].model
                   /\ ret'[c].model.ID \in stack'[c][n].outside
             /\ (/\ Len(stack'[c]) = n - 1 /\ f.owner
                 /\ ret'[c].fnRes # Nil \/ ret'[c].panicked)
                => /\ db' = db
                   /\ ret'[c].outside = f.outside
                   /\ tx'[f.ctx].state \in {"committed", "rolledback"}]_vars

\* serviceFn wrote one row through the context it received and another with
\* the context the call was given, then returned an error: the transaction
\* is rolled back, the first row is not there and the second is.
C27_Witness ==
    LET r == ret["c1"]
    IN  /\ r.op = "WithinTransaction" /\ r.owner /\ r.ctx = NoTx
        /\ r.fnRes = ErrService /\ r.err = ErrService
        /\ tx[r.h].state = "rolledback"
        /\ ops["c1"] = 3
        /\ \E i, j \in Ids : /\ i # j
                             /\ r.by[i] = 1 /\ r.led[i] # Zero /\ db[i] = Zero
                             /\ r.outside = {j} /\ db[j] # Zero

\* C28: a Begin call given a context whose handle is active, when the engine
\* opens the transaction, opens another one: the handle it returns is not
\* the one given, is active, is what the returned context yields and was
\* begun on the given context, whose handle is left as it was.  A Commit or
\* Rollback call through a context changes no handle but the one that
\* context carries, and a handle stops being active only in a Commit or
\* Rollback call, or at the end of the WithinTransaction call that began
\* it, made through the context that carries it.
C28_BeginStacks ==
    [][\A c \in Chains :
         LET r == ret'[c]
         IN  /\ (/\ ops'[c] # ops[c] /\ r.op = "Begin"
                 /\ r.ctx \in Handles /\ r.err = Nil)
                => /\ r.h \in Handles \ {r.ctx}
                   /\ tx[r.h].state = "unused" /\ tx'[r.h].state = "active"
                   /\ tx'[r.h].parent = r.ctx
                   /\ GetTxFromContext(r.h) = [tx |-> r.h, err |-> Nil]
                   /\ tx'[r.ctx] = tx[r.ctx]
             /\ (ops'[c] # ops[c] /\ r.op \in {"Commit", "Rollback"})
                => \A h \in Handles \ {r.ctx} : tx'[h] = tx[h]
             /\ \A h \in Handles :
                  (tx[h].state = "active" /\ tx'[h].state # "active" /\ tx[h].chain = c)
                  => \/ ops'[c] # ops[c] /\ r.op \in {"Commit", "Rollback"} /\ r.ctx = h
                     \/ /\ Len(stack'[c]) = Len(stack[c]) - 1
                        /\ r.op = "WithinTransaction" /\ r.owner /\ r.h = h]_vars

\* A transaction begun on a context whose transaction was active has just
\* been committed through the context Begin returned, and the first one is
\* still active.
C28_Witness ==
    LET r == ret["c1"]
    IN  /\ r.op = "Commit" /\ r.ctx \in Handles /\ r.err = Nil
        /\ tx[r.ctx].onActive
        /\ tx[r.ctx].state = "committed"
        /\ tx[r.ctx].parent \in Handles
        /\ tx[tx[r.ctx].parent].state = "active"

\* C29: a Commit call through a context whose handle was committed or rolled
\* back returns the engine's refusal wrapped as a transaction error, and a
\* Rollback call through it returns having logged nothing; neither changes
\* a committed row or what any handle holds.  So a WithinTransaction call
\* that began the transaction, whose serviceFn returns nil after the handle
\* of its context was closed, returns that wrapped refusal, a non-nil
\* error, and leaves the committed rows as they were.
C29_ClosedHandle ==
    [][\A c \in Chains :
         LET r      == ret'[c]
             closed == {h \in Handles : tx[h].state \in {"committed", "rolledback"}}
             same   == /\ db' = db
                       /\ \A h \in Handles :
                            tx'[h] = [tx[h] EXCEPT !.commitCalled = tx'[h].commitCalled]
         IN  /\ (ops'[c] # ops[c] /\ r.op = "Commit" /\ r.ctx \in closed)
                => /\ r.err = Wrap(ErrTxDone, MsgTransactionError)
                   /\ r.refused = {"commit"}
                   /\ same
             /\ (ops'[c] # ops[c] /\ r.op = "Rollback" /\ r.ctx \in closed)
                => /\ r.logged = {}
                   /\ r.refused = {"rollback"}
                   /\ same
             /\ (/\ Len(stack'[c]) = Len(stack[c]) - 1
                 /\ r.op = "WithinTransaction" /\ r.owner
                 /\ r.fnRes = Nil /\ ~r.panicked
                 /\ r.h \in closed)
                => /\ r.err = Wrap(ErrTxDone, MsgTransactionError)
                   /\ r.err # Nil
                   /\ r.logged = {}
                   /\ same]_vars

\* serviceFn rolled the transaction back through its own context and
\* returned nil: the call returned the wrapped refusal of its Commit, and
\* its deferred Rollback was refused as well.
C29_Witness ==
    LET r == ret["c1"]
    IN  /\ r.op = "WithinTransaction" /\ r.owner /\ r.fnRes = Nil /\ ~r.panicked
        /\ r.err = Wrap(ErrTxDone, MsgTransactionError)
        /\ r.refused = {"commit", "rollback"}
        /\ r.issued = {"commit", "rollback"}
        /\ r.h \in Handles /\ tx[r.h].state = "rolledback"

\* C30: a call given a context whose stored value is no transaction handle
\* changes no committed row and no handle and issues nothing to the engine.
\* WithinTransaction returns the inspection error wrapped with "error
\* checking existing transaction", having called neither Begin nor
\* serviceFn; Commit returns the inspection error; Rollback logs it and
\* returns; and every repository method whose input passed validation
\* returns the inspection error, having run no statement and found no row.
C30_BadContextValue ==
    [][\A c \in Chains :
         LET r    == ret'[c]
             repo == {"Insert", "Update", "Delete", "InsertMany", "DeleteMany", "SaveMany",
                      "FindAll", "FindFirst"}
         IN  (ops'[c] # ops[c] /\ r.ctx = BadVal)
             => /\ r.op # "Begin" => (db' = db /\ tx' = tx /\ r.issued = {})
                /\ r.op = "WithinTransaction"
                     => /\ r.err = Wrap(ErrBadCtx, "error checking existing transaction")
                        /\ ~r.invoked
                        /\ Len(stack'[c]) = Len(stack[c])
                /\ r.op # "serviceFn"
                /\ r.op = "Commit" => r.err = ErrBadCtx
                /\ r.op = "Rollback" => r.logged = {<< "rollback error:" >> \o ErrBadCtx}
                /\ (r.op \in repo /\ ~r.invalid)
                     => /\ r.err = ErrBadCtx
                        /\ r.engine = Nil /\ r.rows = {} /\ r.gone = {}]_vars

\* The chain was given a context whose stored value is no handle; every call
\* it made failed, the last of them a FindAll, and nothing was stored or
\* begun.
C30_Witness ==
    LET r == ret["c1"]
    IN  /\ ctx0["c1"] = BadVal /\ r.ctx = BadVal
        /\ r.op = "FindAll" /\ r.err = ErrBadCtx /\ r.issued = {}
        /\ stack["c1"][1].res = Wrap(ErrBadCtx, "error checking existing transaction")
        /\ ops["c1"] = MaxOps
        /\ db = EmptyTable
        /\ \A h \in Handles : tx[h].state = "unused"

====
